---- MODULE Spec2Model ----
(***************************************************************************)
(* Subtitle retrieval-and-caching engine of movie-bot.                     *)
(*                                                                         *)
(*   Spec      the facade SubtitleDatabase (database/subtitle_db.py) over  *)
(*             CacheManager (subtitle/cache_manager.py), SubtitleStorage   *)
(*             (subtitle/storage.py) and the provider tier: one caller     *)
(*             making calls one after the other while MongoDB and Redis    *)
(*             come and go.  A step of a coroutine is the code between     *)
(*             two awaits that suspend.                                    *)
(*   SpecDownload  the same with download_and_process_subtitle only.       *)
(*   SpecInit  two coroutines racing SubtitleDatabase.initialize.          *)
(*   SpecRL    one RateLimiter (subtitle/api_manager.py) shared by         *)
(*             concurrent callers; SpecRLFair adds the event loop's        *)
(*             fairness.                                                   *)
(*   SpecStore SubtitleStorage called directly: upserts, reads, the expiry *)
(*             sweep and MongoDB's TTL monitor while time passes.          *)
(*   SpecSearch SubtitleAPIManager.search_subtitles over what the two      *)
(*             providers answer: scoring, merging, de-duplication, order.  *)
(*   SpecRetry SubtitleAPIManager._retry_operation around an operation     *)
(*             that returns or raises, for every attempt cap and delay.    *)
(*   SpecProbe SubtitleAPIManager.get_available_languages: the concurrent  *)
(*             check_language tasks under the semaphore.                   *)
(*   SpecToken concurrent calls of one OpenSubtitlesAPI: the token, its    *)
(*             expiry and the logins.                                      *)
(*   SpecCounter concurrent calls of CacheManager.increment_rate_limit    *)
(*             for one key.                                                *)
(*   SpecFacadeSearch  Spec with search_and_cache_subtitles only.          *)
(*   SpecConcurrentDownload  two concurrent calls of                       *)
(*             download_and_process_subtitle for one pair.                 *)
(*   SpecCache CacheManager.set_subtitle_content and                       *)
(*             invalidate_movie_cache over a populated Redis keyspace.     *)
(*   SpecBlob  concurrent calls of SubtitleStorage.cache_subtitle_content  *)
(*             for one pair; SpecRecord adds the upserts of the record.    *)
(*                                                                         *)
(* Python's None is the empty tuple and a present value v is <<v>>.        *)
(***************************************************************************)
EXTENDS Integers, Sequences, FiniteSets, TLC

(***************************************************************************)
(* Bounds of the model.                                                    *)
(***************************************************************************)
\* number of facade operations started in one behaviour
MaxOps == 2
\* last instant of the facade's clock
MaxTime == 1

\* calls of increment_rate_limit started in one behaviour, and their limit
MaxIncrements == 4
max_requests == 2

\* last instant of the clock of OpenSubtitlesAPI
MaxApiTime == 3
\* timedelta(hours=23), in clock ticks
token_validity == 2

\* RATE_LIMIT_CONFIG['concurrent_requests'] (5 in the source, for 10 languages)
concurrent_requests == 2
\* the languages get_available_languages checks (10 in the source)
check_languages == {"en", "es", "fr", "de"}

\* SUBTITLE_SETTINGS['max_file_size'], in payload units (5 MB in the source)
max_file_size == 1

\* SUBTITLE_SETTINGS['cache_duration'], in clock ticks (24 h in the source)
cache_duration == 1
\* CACHE_CONFIG['max_cache_size'], in content units (100 MB in the source)
max_cache_size == 2
\* storage calls made in one behaviour of SpecStore
MaxStoreOps == 4
\* last instant of the clock in SpecStore
MaxStoreTime == 3
\* acquire() calls made in one behaviour of the rate limiter
MaxAcquires == 4
\* last instant of the rate limiter's clock
MaxClock == 5
\* RateLimiter.max_calls (RATE_LIMIT_CONFIG['api_calls_per_minute'], 60 in the source)
max_calls == 2
\* RateLimiter.time_window, in clock ticks (60 s in the source)
time_window == 2
\* max_retries of SubtitleStorage.connect
max_retries == 3

None == <<>>
Some(v) == <<v>>
IsSome(o) == o # <<>>
Val(o) == o[1]

Procs == {"p1", "p2"}
CatalogIds == {"m1"}
Titles == {"t1"}
\* a record is stored under imdb_id or movie_title
MovieIds == CatalogIds \cup Titles
Langs == {"en"}
Keys == MovieIds \X Langs

\* provider results (subtitle_info): sorted by quality_score, descending
R1 == [id |-> "s1", quality_score |-> 50]
R2 == [id |-> "s2", quality_score |-> 5100]
ResultLists == {<<>>, <<R1>>, <<R2, R1>>}
SubtitleInfos == {R1, R2}
\* bytes a provider download returns; "bad" does not validate
\* downloaded bytes: two subtitle files, bytes in no subtitle format, a file
\* in a subtitle format without entries, no bytes, bytes past max_file_size
Payloads == {"srt1", "srt2", "bad", "noevents", "", "huge"}

VARIABLES
    \* SubtitleDatabase
    storage, cache, api_manager, processor, _initialized, _error_count,
    _initialization_lock,
    \* SubtitleStorage: _connected; CacheManager: redis_client
    _connected, redis_client,
    \* the servers: reachable or not
    mongo_up, redis_up,
    \* Redis keys by namespace
    r_content, r_metadata, r_languages, r_search,
    \* MongoDB: subtitles_metadata, GridFS, movies_subtitles, usage_statistics
    subtitles, gridfs, next_file_id, movies, usage_stats,
    \* datetime.utcnow()
    now,
    \* the coroutines running facade operations
    req, started, body_runs,
    \* RateLimiter
    calls, lock, rl, clock, admitted,
    \* SubtitleAPIManager.search_subtitles: what the providers answer, the
    \* results gathered so far, the position in the call
    os_items, file_hash, subdb_results, all_results, search_return, search_pc,
    \* and whether self.opensubtitles is set, the imdb_id argument, the queries made
    opensubtitles, search_imdb_id, search_log,
    \* SubtitleAPIManager._retry_operation: its configuration, its locals,
    \* where it stands, and what it has called and slept so far
    retry_attempts, retry_delay, retry_op, attempt, last_exception, retry_pc,
    retry_result, retry_log,
    \* SubtitleAPIManager.get_available_languages: the check_language tasks,
    \* the semaphore's value, the set collected, what is returned
    probe_pc, probe_outcome, searches, semaphore, available_languages,
    languages_return,
    \* OpenSubtitlesAPI: the credentials, the token and its expiry, the clock
    \* datetime.now(), the tokens the server has issued, the calls in progress
    credentials, token, token_expires, api_now, issued, os,
    \* CacheManager.increment_rate_limit: the Redis counter of one key and
    \* whether it has an expiry, CacheManager._lock, the calls in progress
    rate_count, rate_expires, cm_lock, inc, inc_calls,
    \* CacheManager.set_subtitle_content and invalidate_movie_cache: the call in progress
    cm_call

facadeVars == <<storage, cache, api_manager, processor, _initialized, _error_count,
                _initialization_lock>>
envVars == <<mongo_up, redis_up>>
redisVars == <<r_content, r_metadata, r_languages, r_search>>
mongoVars == <<subtitles, gridfs, next_file_id, movies, usage_stats>>
rlVars == <<calls, lock, rl, clock, admitted>>
searchVars == <<os_items, file_hash, subdb_results, all_results, search_return,
               search_pc, opensubtitles, search_imdb_id, search_log>>
retryVars == <<retry_attempts, retry_delay, retry_op, attempt, last_exception,
              retry_pc, retry_result, retry_log>>
probeVars == <<probe_pc, probe_outcome, searches, semaphore, available_languages,
              languages_return>>
tokenVars == <<credentials, token, token_expires, api_now, issued, os>>
counterVars == <<rate_count, rate_expires, cm_lock, inc, inc_calls>>
callVars == <<cm_call>>
apiVars == <<retryVars, probeVars, tokenVars, counterVars, callVars>>
dbVars == <<facadeVars, _connected, redis_client, envVars, redisVars, mongoVars, now,
            req, started, body_runs,
            searchVars, apiVars>>
vars == <<dbVars, rlVars>>

(***************************************************************************)
(* Values.                                                                 *)
(***************************************************************************)
\* a datetime object (motor returns datetimes for the timestamp fields)
DateTime(t) == <<"datetime", t>>
\* datetime.isoformat(): the string JSON carries
IsoFormat(d) == <<"str", d[2]>>

\* CacheManager._prepare_for_serialization, json.dumps and, on the read,
\* json.loads: a datetime comes back as its ISO string, the rest unchanged
_prepare_for_serialization(doc) ==
    [doc EXCEPT !.created_at = IsoFormat(@), !.expires_at = IsoFormat(@)]

\* len(content.encode('utf-8')), in content units
ContentSize(content) ==
    CASE content = "big" -> max_cache_size + 1
      [] content = "full" -> max_cache_size
      [] OTHER -> 1

\* len(content) of downloaded bytes, in units of max_file_size
PayloadSize(content_bytes) ==
    CASE content_bytes = "" -> 0
      [] content_bytes = "huge" -> max_file_size + 1
      [] OTHER -> 1
\* SubtitleProcessor.validate_subtitle_file: (is_valid, message)
validate_subtitle_file(content_bytes) ==
    IF PayloadSize(content_bytes) > max_file_size THEN <<FALSE, "file_too_large">>
    ELSE IF PayloadSize(content_bytes) = 0 THEN <<FALSE, "Empty subtitle file">>
    ELSE IF content_bytes = "bad" THEN <<FALSE, "Invalid subtitle format">>
    ELSE <<TRUE, "Valid subtitle file">>
\* SubtitleProcessor.process_subtitle_file: (text, message) or (None, reason)
process_subtitle_file_lenient(content_bytes) == <<Some("text1"), "Success">>
process_subtitle_file(content_bytes) ==
    IF ~validate_subtitle_file(content_bytes)[1]
    THEN <<None, validate_subtitle_file(content_bytes)[2]>>
    ELSE CASE content_bytes = "srt1" -> <<Some("text1"), "Success">>
           [] content_bytes = "srt2" -> <<Some("text2"), "Success">>
           [] OTHER -> <<None, "No subtitle entries found">>

\* the _id GridFS gives a file, and str() of it (motor keeps the two apart:
\* a query for the string does not match the ObjectId)
ObjectId(n) == <<"ObjectId", n>>
Str(oid) == <<"str", oid[2]>>

\* gzip.compress / the bytes stored uncompressed
Encode(content, compress) ==
    IF compress THEN <<"gzip", content>> ELSE <<"utf-8", content>>
\* get_cached_subtitle_content 286-294: gunzip when tagged compressed (raw decode
\* with errors='replace' when that fails), raw decode otherwise
Decode(file) ==
    IF file.compressed
    THEN IF file.data[1] = "gzip" THEN file.data[2] ELSE "undecodable"
    ELSE IF file.data[1] = "utf-8" THEN file.data[2] ELSE "undecodable"

(***************************************************************************)
(* CacheManager: a call returns None/False when there is no client or the  *)
(* Redis call raises (caught inside every method).                         *)
(***************************************************************************)
\* `if not self.redis_client: return None` passed and the call did not raise
CacheReachable == redis_client /\ redis_up

\* every get_* and set_* body is a try whose `except Exception` returns
\* None/False (63-65, 89-91, 108-110, 135-137, ...): nothing is raised to the caller
\* variant: a cache method that lets the failure of an unreachable cache escape
cache_call_raises_unreachable(reachable) == ~reachable
cache_call_raises(reachable) == FALSE

\* get_subtitle_content / get_subtitle_metadata / get_available_languages /
\* get_search_results: the value under the key, None for a miss or a failure
CacheGetValue(ns, k) ==
    IF ~CacheReachable THEN None
    ELSE CASE ns = "content" -> r_content[k]
           [] ns = "metadata" -> r_metadata[k]
           [] ns = "languages" -> r_languages[k]
           [] OTHER -> r_search[k]

\* set_subtitle_content: refused without a client, above max_cache_size, or
\* when setex raises
\* variant: no check of the size
content_accepted_any_size(content) == CacheReachable
content_accepted(content) == CacheReachable /\ ContentSize(content) <= max_cache_size
set_subtitle_content(k, content) ==
    IF content_accepted(content) THEN [r_content EXCEPT ![k] = Some(content)]
    ELSE r_content

\* set_subtitle_metadata: setex of the serialized document
\* variant: the document is cached as it is, timestamps unconverted
set_subtitle_metadata_unserialized(k, metadata) ==
    IF CacheReachable THEN [r_metadata EXCEPT ![k] = Some(metadata)] ELSE r_metadata
set_subtitle_metadata(k, metadata) ==
    IF CacheReachable
    THEN [r_metadata EXCEPT ![k] = Some(_prepare_for_serialization(metadata))]
    ELSE r_metadata

\* set_available_languages: setex of json.dumps(languages)
set_available_languages(m, languages) ==
    IF CacheReachable THEN [r_languages EXCEPT ![m] = Some(languages)]
    ELSE r_languages

\* set_search_results: setex of the serialized list under (query.lower(), language)
set_search_results(q, results) ==
    IF CacheReachable THEN [r_search EXCEPT ![q] = Some(results)]
    ELSE r_search

(***************************************************************************)
(* SubtitleStorage: every method catches its exceptions and returns        *)
(* None/False/[]; a call raises inside when MongoDB is unreachable.        *)
(***************************************************************************)
\* the query {"expires_at": {"$gt": datetime.utcnow()}}
\* variant: a query without the expiry filter
Live_unfiltered(doc) == TRUE
Live(doc) == doc.expires_at[2] > now

\* store_subtitle_metadata 139-166: the document built from a provider result
Document(k, subtitle_data) ==
    [movie_id |-> k[1], language |-> k[2],
     subtitle_id |-> subtitle_data.id,
     quality_score |-> subtitle_data.quality_score,
     created_at |-> DateTime(now),
     expires_at |-> DateTime(now + cache_duration),
     cached_content |-> FALSE, gridfs_file_id |-> None, local_downloads |-> 0]

\* find_one of get_subtitle_metadata
FindLive(k) ==
    IF IsSome(subtitles[k]) /\ Live(Val(subtitles[k])) THEN subtitles[k] ELSE None

\* get_subtitles_by_movie(movie_id): the live documents of the movie
LiveKeysOf(m) ==
    {k \in Keys : k[1] = m /\ IsSome(subtitles[k]) /\ Live(Val(subtitles[k]))}
\* what _update_movie_subtitle_count counts after `subs` is written
LiveLanguages(subs, m) ==
    {l \in Langs : IsSome(subs[<<m, l>>]) /\ subs[<<m, l>>][1].expires_at[2] > now}

\* fs.find({"filename": ...}): the GridFS files of a key
FilesOf(k) == {f \in gridfs : f.filename = k}

\* _update_movie_subtitle_count: update_one with the $or filter and upsert;
\* an upsert on an $or filter inserts a document with the $set fields only
MovieMatches(doc, m) == doc.imdb_id = Some(m) \/ doc.title = Some(m)
UpdatedMovies(mv, subs, m) ==
    LET langs == LiveLanguages(subs, m)
        hit == {d \in mv : MovieMatches(d, m)}
        new == [imdb_id |-> None, title |-> None,
                subtitle_count |-> Cardinality(langs), available_languages |-> langs]
    IN
    IF hit = {} THEN mv \cup {new}
    ELSE LET d == CHOOSE x \in hit : TRUE
         IN (mv \ {d}) \cup
            {[d EXCEPT !.subtitle_count = Cardinality(langs),
                       !.available_languages = langs]}
_update_movie_subtitle_count(subs, m) == UpdatedMovies(movies, subs, m)

\* get_cached_subtitle_content: fs.find_one by filename, read and decode
StoredContent(k) ==
    IF FilesOf(k) = {} THEN None
    ELSE Some(Decode(CHOOSE f \in FilesOf(k) : TRUE))

\* cache_subtitle_content 228-247: delete the files of the name, upload the new one
UploadedFile(k, content, compress) ==
    [_id |-> ObjectId(next_file_id), filename |-> k, data |-> Encode(content, compress),
     compressed |-> compress]
\* cache_subtitle_content 250-260: update_one (no upsert) on the owning document
MarkCached(k, file_id) ==
    IF IsSome(subtitles[k])
    THEN [subtitles EXCEPT ![k] =
            Some([Val(@) EXCEPT !.cached_content = TRUE, !.gridfs_file_id = Some(file_id)])]
    ELSE subtitles

\* update_download_stats 675-688: update_one (no upsert), $inc local_downloads
CountDownload(k) ==
    IF IsSome(subtitles[k])
    THEN [subtitles EXCEPT ![k] = Some([Val(@) EXCEPT !.local_downloads = @ + 1])]
    ELSE subtitles

(***************************************************************************)
(* SubtitleDatabase: the requests.                                         *)
(***************************************************************************)
NoRequest ==
    [pc |-> "idle", op |-> "none", movie_id |-> "m1", language |-> "en",
     title |-> None, imdb_id |-> None, subtitle_info |-> None,
     val |-> None, i |-> 0, result |-> None, outcome |-> "none",
     trace |-> <<>>, store_failed |-> FALSE, attempts |-> 0,
     include_expired |-> FALSE, min_quality_score |-> 0]

\* the calls a caller can make, with their arguments
Requests ==
    {[NoRequest EXCEPT !.op = o, !.movie_id = m, !.language = l] :
        o \in {"info", "content"}, m \in MovieIds, l \in Langs}
    \cup {[NoRequest EXCEPT !.op = "download", !.movie_id = m, !.language = l,
                            !.subtitle_info = Some(s)] :
        m \in CatalogIds, l \in Langs, s \in SubtitleInfos}
    \cup {[NoRequest EXCEPT !.op = "languages", !.movie_id = m, !.title = t] :
        m \in CatalogIds, t \in {None} \cup {Some(x) : x \in Titles}}
    \cup {[NoRequest EXCEPT !.op = "search", !.title = Some(t), !.imdb_id = i,
                            !.language = l] :
        t \in Titles, i \in {None} \cup {Some(x) : x \in CatalogIds}, l \in Langs}

Key(r) == <<r.movie_id, r.language>>
\* search_and_cache_subtitles 174-176: results are stored under imdb_id or movie_title
SearchMovie(r) == IF IsSome(r.imdb_id) THEN Val(r.imdb_id) ELSE Val(r.title)
\* the cache namespace and key an operation reads first
Namespace(r) ==
    CASE r.op = "info" -> "metadata"
      [] r.op \in {"content", "download"} -> "content"
      [] r.op = "languages" -> "languages"
      [] OTHER -> "search"
CacheKey(r) ==
    CASE r.op = "languages" -> r.movie_id
      [] r.op = "search" -> <<Val(r.title), r.language>>
      [] OTHER -> Key(r)

Event(r, e) == [r EXCEPT !.trace = Append(@, e)]
\* what a cache write is seen to do
SetEvent(accepted) == IF accepted THEN "cache_set" ELSE "cache_set_refused"
Return(r, value) ==
    [r EXCEPT !.pc = "done", !.outcome = "returned", !.result = value,
              !.val = None, !.i = 0]
\* the `except Exception` of a facade operation (117-119, 143-145, 191-193,
\* 233-235, 268-270): log, return None or []
Caught(r) ==
    Return(Event(r, "exception"),
           CASE r.op = "search" -> <<>>
             [] r.op = "languages" -> Some({})
             [] OTHER -> None)

\* nothing constructed, nothing connected, both servers up, no file, no call
InitUnconnected ==
    /\ storage = None /\ cache = None /\ api_manager = None /\ processor = None
    /\ _initialized = FALSE /\ _error_count = 0
    /\ _initialization_lock = [holder |-> None, waiters |-> <<>>]
    /\ _connected = FALSE
    /\ mongo_up = TRUE /\ redis_up = TRUE
    /\ gridfs = {} /\ next_file_id = 1 /\ movies = {} /\ usage_stats = {}
    /\ now = 0
    /\ req = [p \in Procs |-> NoRequest]
    /\ started = 0 /\ body_runs = 0
    /\ calls = <<>> /\ lock = [holder |-> None, waiters |-> <<>>]
    /\ rl = [c \in Procs |-> [pc |-> "idle", wake |-> 0]]
    /\ clock = 0 /\ admitted = <<>>
InitSystem ==
    /\ InitUnconnected
    /\ redis_client = FALSE
    /\ r_content = [k \in Keys |-> None]
    /\ r_metadata = [k \in Keys |-> None]
    /\ r_languages = [m \in MovieIds |-> None]
    /\ r_search = [q \in Titles \X Langs |-> None]
    /\ subtitles = [k \in Keys |-> None]
\* no search is in progress
\* no call of _retry_operation is in progress
InitRetryIdle ==
    /\ retry_attempts = 3 /\ retry_delay = 1 /\ retry_op = "none"
    /\ attempt = 0 /\ last_exception = None /\ retry_pc = "idle"
    /\ retry_result = None /\ retry_log = <<>>
\* no call of get_available_languages is in progress
InitProbeIdle ==
    /\ probe_pc = [l \in check_languages |-> "idle"]
    /\ probe_outcome = [l \in check_languages |-> "none"]
    /\ searches = [l \in check_languages |-> 0]
    /\ semaphore = concurrent_requests
    /\ available_languages = {} /\ languages_return = None
\* OpenSubtitlesAPI.__init__: no token, and no call in progress
NoCall == [pc |-> "idle", op |-> "none", logins |-> 0, requests |-> 0,
           bearer |-> None, result |-> None]
InitTokenIdle ==
    /\ credentials = TRUE /\ token = None /\ token_expires = None
    /\ api_now = 0 /\ issued = 0
    /\ os = [c \in Procs |-> NoCall]
\* no rate-limit key in Redis, CacheManager._lock free, no call in progress
NoIncrement == [pc |-> "idle", current_count |-> 0, result |-> None]
InitCounterIdle ==
    /\ rate_count = None /\ rate_expires = FALSE
    /\ cm_lock = [holder |-> None, waiters |-> <<>>]
    /\ inc = [c \in Procs |-> NoIncrement]
    /\ inc_calls = 0
\* no cache-manager call under observation
NoCacheCall == [op |-> "none", pc |-> "idle", movie_id |-> <<>>, language |-> <<>>,
                content |-> "", pattern |-> 0, keys |-> {}, result |-> None]
InitCallIdle == cm_call = NoCacheCall
InitApiIdle == InitRetryIdle /\ InitProbeIdle /\ InitTokenIdle /\ InitCounterIdle /\ InitCallIdle
Init ==
    /\ InitSystem /\ InitApiIdle
    /\ os_items = <<>> /\ file_hash = FALSE /\ subdb_results = <<>>
    /\ all_results = <<>> /\ search_return = <<>> /\ search_pc = "idle"
    /\ opensubtitles = TRUE /\ search_imdb_id = None /\ search_log = <<>>

(***************************************************************************)
(* SubtitleDatabase.initialize / ensure_initialized.                       *)
(***************************************************************************)
\* asyncio.Lock: taken at once only when unlocked with nobody queued
LockFree == _initialization_lock.holder = None /\ _initialization_lock.waiters = <<>>

\* initialize 33: the second look at _initialized, under the lock
\* variant: initialize without the second look
DoubleCheck_skipped == FALSE
DoubleCheck == _initialized

\* _cleanup_partial_initialization 76-85: what the four fields hold afterwards
\* variant: a cleanup that leaves the fields as they are
_cleanup_partial_initialization_skipped ==
    [storage |-> storage, cache |-> cache, api_manager |-> api_manager,
     processor |-> processor]
_cleanup_partial_initialization ==
    [storage |-> IF IsSome(storage) THEN None ELSE storage,
     cache |-> IF IsSome(cache) THEN None ELSE cache,
     api_manager |-> IF IsSome(api_manager) THEN None ELSE api_manager,
     processor |-> None]

\* initialize 36-41: the try block up to the await of storage.connect()
EnterInitBody(p, r) ==
    /\ storage' = Some("SubtitleStorage")
    /\ req' = [req EXCEPT ![p] = [r EXCEPT !.pc = "connect", !.i = 0,
                                            !.attempts = @ + 1]]
    /\ UNCHANGED <<cache, api_manager, processor, _initialized, _error_count>>

\* a call of a facade operation, up to its first await that suspends
Begin(p, r) ==
    /\ req[p].pc \in {"idle", "done"}
    /\ started < MaxOps
    /\ started' = started + 1
    /\ \/ /\ _initialized
          /\ req' = [req EXCEPT ![p] = [r EXCEPT !.pc = "cache_get"]]
          /\ UNCHANGED facadeVars
       \/ /\ ~_initialized /\ LockFree
          /\ _initialization_lock' = [_initialization_lock EXCEPT !.holder = Some(p)]
          /\ EnterInitBody(p, r)
       \/ /\ ~_initialized /\ ~LockFree
          /\ _initialization_lock' =
                [_initialization_lock EXCEPT !.waiters = Append(@, p)]
          /\ req' = [req EXCEPT ![p] = [r EXCEPT !.pc = "lock_wait"]]
          /\ UNCHANGED <<storage, cache, api_manager, processor, _initialized,
                         _error_count>>
    /\ UNCHANGED <<_connected, redis_client, envVars, redisVars, mongoVars, now,
                   body_runs, rlVars, searchVars, apiVars>>

\* the head waiter gets the lock and looks at _initialized again
LockGranted(p) ==
    /\ req[p].pc = "lock_wait"
    /\ _initialization_lock.holder = None
    /\ _initialization_lock.waiters # <<>>
    /\ Head(_initialization_lock.waiters) = p
    /\ \/ /\ DoubleCheck
          /\ _initialization_lock' =
                [_initialization_lock EXCEPT !.waiters = Tail(@)]
          /\ req' = [req EXCEPT ![p].pc = "cache_get"]
          /\ UNCHANGED <<storage, cache, api_manager, processor, _initialized,
                         _error_count>>
       \/ /\ ~DoubleCheck
          /\ _initialization_lock' =
                [holder |-> Some(p), waiters |-> Tail(_initialization_lock.waiters)]
          /\ EnterInitBody(p, req[p])
    /\ UNCHANGED <<_connected, redis_client, envVars, redisVars, mongoVars, now,
                   started, body_runs, rlVars, searchVars, apiVars>>

\* SubtitleStorage.connect 42-79 under initialize 41, and initialize 64-71 when
\* it raises
StorageConnect(p) ==
    /\ req[p].pc = "connect"
    /\ \/ /\ mongo_up
          /\ _connected' = TRUE
          /\ cache' = Some("CacheManager")
          /\ req' = [req EXCEPT ![p].pc = "cache_connect"]
          /\ UNCHANGED <<storage, api_manager, processor, _initialized, _error_count,
                         _initialization_lock>>
       \/ /\ ~mongo_up
          /\ req[p].i < max_retries - 1
          /\ req' = [req EXCEPT ![p].i = @ + 1]
          /\ UNCHANGED <<facadeVars, _connected>>
       \/ /\ ~mongo_up
          /\ _error_count' = _error_count + 1
          /\ storage' = _cleanup_partial_initialization.storage
          /\ cache' = _cleanup_partial_initialization.cache
          /\ api_manager' = _cleanup_partial_initialization.api_manager
          /\ processor' = _cleanup_partial_initialization.processor
          /\ _connected' = FALSE
          /\ _initialization_lock' = [_initialization_lock EXCEPT !.holder = None]
          /\ req' = [req EXCEPT ![p] = [@ EXCEPT !.pc = "done", !.outcome = "raised",
                                                 !.store_failed = TRUE]]
          /\ UNCHANGED _initialized
    /\ UNCHANGED <<redis_client, envVars, redisVars, mongoVars, now, started,
                   body_runs, rlVars, searchVars, apiVars>>

\* CacheManager.connect 24-42 under initialize 46, then initialize 50-62
CacheConnect(p) ==
    /\ req[p].pc = "cache_connect"
    /\ redis_client' = redis_up
    /\ api_manager' = Some("SubtitleAPIManager")
    /\ processor' = Some("SubtitleProcessor")
    /\ _initialized' = TRUE
    /\ _error_count' = 0
    /\ body_runs' = body_runs + 1
    /\ _initialization_lock' = [_initialization_lock EXCEPT !.holder = None]
    /\ req' = [req EXCEPT ![p].pc = "cache_get"]
    /\ UNCHANGED <<storage, cache, _connected, envVars, redisVars, mongoVars, now,
                   started, rlVars, searchVars, apiVars>>

(***************************************************************************)
(* SubtitleDatabase: the read paths.                                       *)
(***************************************************************************)
\* `if cached_info: return cached_info` (103, 129, 159, 206, 245)
\* variant: a lookup that never ends the call
ShortCircuit_never(cached) == FALSE
ShortCircuit(cached) == IsSome(cached)

\* an operation's value when it returns what the cache or a list-valued tier gave
AsResult(r, v) == IF r.op = "search" THEN Val(v) ELSE v

\* the cache lookup every operation starts with
CacheGet(p) ==
    /\ req[p].pc = "cache_get"
    /\ LET r == req[p]
           cached == CacheGetValue(Namespace(r), CacheKey(r))
           seen == Event(r, IF ~CacheReachable THEN "cache_down"
                            ELSE IF IsSome(cached) THEN "cache_hit" ELSE "cache_miss")
       IN req' = [req EXCEPT ![p] =
                    IF cache_call_raises(CacheReachable) THEN Caught(seen)
                    ELSE IF ShortCircuit(cached) THEN Return(seen, AsResult(r, cached))
                    ELSE [seen EXCEPT !.pc = IF r.op = "search" THEN "provider"
                                             ELSE "store_get"]]
    /\ UNCHANGED <<facadeVars, _connected, redis_client, envVars, redisVars, mongoVars,
                   now, started, body_runs, rlVars, searchVars, apiVars>>

\* what a storage read gives the facade: None when the call raised inside
StoreRead(r) ==
    IF ~mongo_up THEN None
    ELSE CASE r.op = "info" -> FindLive(Key(r))
           [] r.op \in {"content", "download"} -> StoredContent(Key(r))
           [] OTHER -> IF LiveKeysOf(r.movie_id) = {} THEN None
                       ELSE Some({k[2] : k \in LiveKeysOf(r.movie_id)})

\* _record_access (203) / _record_cache_hit (297)
UsageOf(r) ==
    CASE r.op = "info" -> {<<"access", Key(r)>>}
      [] r.op \in {"content", "download"} -> {<<"cache_hit", Key(r)>>}
      [] OTHER -> {}

\* get_subtitle_info 108-115, get_subtitle_content 134-141 (also under
\* download_and_process_subtitle 205), get_available_languages 250-266
StoreGet(p) ==
    /\ req[p].pc = "store_get"
    /\ LET r == req[p]
           stored == StoreRead(r)
           seen == Event([r EXCEPT !.store_failed = @ \/ ~mongo_up],
                         IF ~mongo_up THEN "store_fail"
                         ELSE IF IsSome(stored) THEN "store_hit" ELSE "store_miss")
       IN /\ usage_stats' = IF IsSome(stored) THEN usage_stats \cup UsageOf(r)
                            ELSE usage_stats
          /\ req' = [req EXCEPT ![p] =
                CASE IsSome(stored) -> [seen EXCEPT !.pc = "cache_set", !.val = stored]
                  [] ~IsSome(stored) /\ r.op = "download" ->
                        [seen EXCEPT !.pc = "provider"]
                  [] ~IsSome(stored) /\ r.op = "languages" ->
                        IF IsSome(r.title) /\ IsSome(api_manager)
                        THEN [seen EXCEPT !.pc = "provider"]
                        ELSE Return(seen, Some({}))
                  [] OTHER -> Return(seen, None)]
    /\ UNCHANGED <<facadeVars, _connected, redis_client, envVars, redisVars, subtitles,
                   gridfs, next_file_id, movies, now, started, body_runs, rlVars, searchVars, apiVars>>

\* the write-back of one value into its cache namespace
CacheWrite(r, v) ==
    /\ r_content' = IF r.op \in {"content", "download"}
                    THEN set_subtitle_content(Key(r), Val(v)) ELSE r_content
    /\ r_metadata' = IF r.op = "info"
                     THEN set_subtitle_metadata(Key(r), Val(v)) ELSE r_metadata
    /\ r_languages' = IF r.op = "languages"
                      THEN set_available_languages(r.movie_id, Val(v)) ELSE r_languages
    /\ r_search' = r_search

\* whether that write is accepted
CacheAccepts(r, v) ==
    IF r.op \in {"content", "download"} THEN content_accepted(Val(v)) ELSE CacheReachable

\* the cache write-back after a storage hit (111, 137, 253) or after the language
\* probe (262), and the return that follows it without an await
CacheSet(p) ==
    /\ req[p].pc = "cache_set"
    /\ CacheWrite(req[p], req[p].val)
    /\ req' = [req EXCEPT ![p] =
                IF cache_call_raises(CacheReachable) THEN Caught(@)
                ELSE Return(Event(@, SetEvent(CacheAccepts(@, @.val))), @.val)]
    /\ UNCHANGED <<facadeVars, _connected, redis_client, envVars, mongoVars, now,
                   started, body_runs, rlVars, searchVars, apiVars>>

\* the bytes the provider named by a result serves
PayloadOf(subtitle_info) == IF subtitle_info.id = "s1" THEN "srt1" ELSE "srt2"

\* download_and_process_subtitle 211-214: download_subtitle_content
ProviderDownload(p) ==
    /\ req[p].pc = "provider" /\ req[p].op = "download"
    /\ \E content_bytes \in {None, Some(""), Some("bad"), Some("noevents"), Some("huge"),
                              Some(PayloadOf(Val(req[p].subtitle_info)))} :
        LET r == Event(req[p], "provider")
        IN req' = [req EXCEPT ![p] =
                IF ~IsSome(content_bytes) \/ content_bytes = Some("")
                THEN Return(r, None)
                ELSE [r EXCEPT !.pc = "process", !.val = content_bytes]]
    /\ UNCHANGED <<facadeVars, _connected, redis_client, envVars, redisVars, mongoVars,
                   now, started, body_runs, rlVars, searchVars, apiVars>>

\* download_and_process_subtitle 217-220: process_subtitle_file
Process(p) ==
    /\ req[p].pc = "process"
    /\ LET r == Event(req[p], "process")
           processed_content == process_subtitle_file(Val(req[p].val))[1]
       IN req' = [req EXCEPT ![p] =
                IF ~IsSome(processed_content) THEN Return(r, None)
                ELSE [r EXCEPT !.pc = "wb_cache", !.val = processed_content]]
    /\ UNCHANGED <<facadeVars, _connected, redis_client, envVars, redisVars, mongoVars,
                   now, started, body_runs, rlVars, searchVars, apiVars>>

\* get_available_languages 258-264: SubtitleAPIManager.get_available_languages
ProviderLanguages(p) ==
    /\ req[p].pc = "provider" /\ req[p].op = "languages"
    /\ \E languages \in SUBSET Langs :
        LET r == Event(req[p], "provider")
        IN req' = [req EXCEPT ![p] =
                IF languages # {} THEN [r EXCEPT !.pc = "cache_set", !.val = Some(languages)]
                ELSE Return(r, Some({}))]
    /\ UNCHANGED <<facadeVars, _connected, redis_client, envVars, redisVars, mongoVars,
                   now, started, body_runs, rlVars, searchVars, apiVars>>

\* search_and_cache_subtitles 169-187: `if results:` a list with results is
\* stored and cached, an empty one is returned as it is
\* variant: an empty list goes to the search cache as well
AfterSearch_caches_empty(r, results) ==
    IF results # <<>> THEN [r EXCEPT !.pc = "store_results", !.val = results, !.i = 1]
    ELSE [r EXCEPT !.pc = "cache_set_search", !.val = results]
AfterSearch(r, results) ==
    IF results # <<>> THEN [r EXCEPT !.pc = "store_results", !.val = results, !.i = 1]
    ELSE Return(r, results)

\* search_and_cache_subtitles 165-189: SubtitleAPIManager.search_subtitles
ProviderSearch(p) ==
    /\ req[p].pc = "provider" /\ req[p].op = "search"
    /\ \E results \in ResultLists :
        req' = [req EXCEPT ![p] = AfterSearch(Event(req[p], "provider"), results)]
    /\ UNCHANGED <<facadeVars, _connected, redis_client, envVars, redisVars, mongoVars,
                   now, started, body_runs, rlVars, searchVars, apiVars>>

\* download_and_process_subtitle 225: cache.set_subtitle_content
WbCache(p) ==
    /\ req[p].pc = "wb_cache"
    /\ CacheWrite(req[p], req[p].val)
    /\ req' = [req EXCEPT ![p] =
                IF cache_call_raises(CacheReachable) THEN Caught(@)
                ELSE [Event(@, SetEvent(CacheAccepts(@, @.val))) EXCEPT !.pc = "wb_store"]]
    /\ UNCHANGED <<facadeVars, _connected, redis_client, envVars, mongoVars, now,
                   started, body_runs, rlVars, searchVars, apiVars>>

\* download_and_process_subtitle 226: storage.cache_subtitle_content
WbStore(p) ==
    /\ req[p].pc = "wb_store"
    /\ LET r == req[p]
           k == Key(r)
       IN IF mongo_up
          THEN /\ gridfs' = (gridfs \ FilesOf(k)) \cup {UploadedFile(k, Val(r.val), TRUE)}
               /\ next_file_id' = next_file_id + 1
               /\ subtitles' = MarkCached(k, Str(ObjectId(next_file_id)))
               /\ req' = [req EXCEPT ![p] = [Event(r, "store_set") EXCEPT !.pc = "wb_stats"]]
          ELSE /\ UNCHANGED <<gridfs, next_file_id, subtitles>>
               /\ req' = [req EXCEPT ![p] =
                            [Event(r, "store_set_fail") EXCEPT !.pc = "wb_stats",
                                                            !.store_failed = TRUE]]
    /\ UNCHANGED <<facadeVars, _connected, redis_client, envVars, redisVars, movies,
                   usage_stats, now, started, body_runs, rlVars, searchVars, apiVars>>

\* download_and_process_subtitle 229-231: storage.update_download_stats, return
WbStats(p) ==
    /\ req[p].pc = "wb_stats"
    /\ LET r == req[p]
           k == Key(r)
       IN IF mongo_up
          THEN /\ subtitles' = CountDownload(k)
               /\ usage_stats' = usage_stats \cup {<<"download", k>>}
               /\ req' = [req EXCEPT ![p] = Return(Event(r, "stats"), r.val)]
          ELSE /\ UNCHANGED <<subtitles, usage_stats>>
               /\ req' = [req EXCEPT ![p] =
                            Return([Event(r, "stats_fail") EXCEPT !.store_failed = TRUE],
                                   r.val)]
    /\ UNCHANGED <<facadeVars, _connected, redis_client, envVars, redisVars, gridfs,
                   next_file_id, movies, now, started, body_runs, rlVars, searchVars, apiVars>>

\* search_and_cache_subtitles 173-176: one store_subtitle_metadata of the loop
StoreResults(p) ==
    /\ req[p].pc = "store_results"
    /\ LET r == req[p]
           m == SearchMovie(r)
           k == <<m, r.language>>
           written == [subtitles EXCEPT ![k] = Some(Document(k, r.val[r.i]))]
           next == [r EXCEPT !.i = @ + 1,
                             !.pc = IF r.i = Len(r.val) THEN "cache_set_search" ELSE @]
       IN IF mongo_up
          THEN /\ subtitles' = written
               /\ movies' = _update_movie_subtitle_count(written, m)
               /\ req' = [req EXCEPT ![p] = Event(next, "store_set")]
          ELSE /\ UNCHANGED <<subtitles, movies>>
               /\ req' = [req EXCEPT ![p] =
                            [Event(next, "store_set_fail") EXCEPT !.store_failed = TRUE]]
    /\ UNCHANGED <<facadeVars, _connected, redis_client, envVars, redisVars, gridfs,
                   next_file_id, usage_stats, now, started, body_runs, rlVars, searchVars, apiVars>>

\* search_and_cache_subtitles 179-189: cache.set_search_results
CacheSetSearch(p) ==
    /\ req[p].pc = "cache_set_search"
    /\ LET r == Event(req[p], SetEvent(CacheReachable))
       IN /\ r_search' = set_search_results(CacheKey(r), r.val)
          /\ req' = [req EXCEPT ![p] =
                IF cache_call_raises(CacheReachable) THEN Caught(req[p])
                ELSE IF IsSome(r.imdb_id) THEN [r EXCEPT !.pc = "store_movie"]
                ELSE Return(r, r.val)]
    /\ UNCHANGED <<facadeVars, _connected, redis_client, envVars, r_content, r_metadata,
                   r_languages, mongoVars, now, started, body_runs, rlVars, searchVars, apiVars>>

\* search_and_cache_subtitles 182-189: store_movie_subtitle_info. Its update puts
\* check_count under both $set and $inc (storage.py 321, 345), which the server
\* refuses; the method catches the error and returns False
StoreMovie(p) ==
    /\ req[p].pc = "store_movie"
    /\ req' = [req EXCEPT ![p] =
                Return([Event(@, "store_movie_fail") EXCEPT !.store_failed = TRUE],
                       req[p].val)]
    /\ UNCHANGED <<facadeVars, _connected, redis_client, envVars, redisVars, mongoVars,
                   now, started, body_runs, rlVars, searchVars, apiVars>>

(***************************************************************************)
(* The environment.                                                        *)
(***************************************************************************)
\* MongoDB becomes unreachable or reachable again
MongoFlip ==
    /\ mongo_up' = ~mongo_up
    /\ UNCHANGED <<facadeVars, _connected, redis_client, redis_up, redisVars, mongoVars,
                   now, req, started, body_runs, rlVars, searchVars, apiVars>>

\* Redis becomes unreachable or reachable again
RedisFlip ==
    /\ redis_up' = ~redis_up
    /\ UNCHANGED <<facadeVars, _connected, redis_client, mongo_up, redisVars, mongoVars,
                   now, req, started, body_runs, rlVars, searchVars, apiVars>>

\* datetime.utcnow() advances
Tick ==
    /\ now < MaxTime
    /\ now' = now + 1
    /\ UNCHANGED <<facadeVars, _connected, redis_client, envVars, redisVars, mongoVars,
                   req, started, body_runs, rlVars, searchVars, apiVars>>

\* SubtitleDatabase.initialize, past the lock
InitSteps(P) ==
    \/ \E p \in P : StorageConnect(p)
    \/ \E p \in P : CacheConnect(p)

\* the body of get_subtitle_info and get_subtitle_content
ReadSteps(P) ==
    \/ \E p \in P : CacheGet(p)
    \/ \E p \in P : StoreGet(p)
    \/ \E p \in P : CacheSet(p)

\* the rest of download_and_process_subtitle, get_available_languages and
\* search_and_cache_subtitles
ProviderSteps(P) ==
    \/ \E p \in P : ProviderDownload(p)
    \/ \E p \in P : Process(p)
    \/ \E p \in P : ProviderLanguages(p)
    \/ \E p \in P : ProviderSearch(p)
    \/ \E p \in P : WbCache(p)
    \/ \E p \in P : WbStore(p)
    \/ \E p \in P : WbStats(p)
    \/ \E p \in P : StoreResults(p)
    \/ \E p \in P : CacheSetSearch(p)
    \/ \E p \in P : StoreMovie(p)

Environment == MongoFlip \/ RedisFlip \/ Tick

\* one caller making every call of the facade, one call after the other
Next ==
    \/ \E r \in Requests : Begin("p1", r)
    \/ InitSteps({"p1"})
    \/ ReadSteps({"p1"})
    \/ ProviderSteps({"p1"})
    \/ Environment

Spec == Init /\ [][Next]_vars

\* one caller making calls of download_and_process_subtitle only
DownloadRequests == {r \in Requests : r.op = "download"}
NextDownload ==
    \/ \E r \in DownloadRequests : Begin("p1", r)
    \/ StorageConnect("p1")
    \/ CacheConnect("p1")
    \/ CacheGet("p1")
    \/ StoreGet("p1")
    \/ CacheSet("p1")
    \/ ProviderDownload("p1")
    \/ Process("p1")
    \/ WbCache("p1")
    \/ WbStore("p1")
    \/ WbStats("p1")
    \/ Environment

SpecDownload == Init /\ [][NextDownload]_vars

\* one caller making calls of search_and_cache_subtitles only
SearchRequests == {r \in Requests : r.op = "search"}
NextFacadeSearch ==
    \/ \E r \in SearchRequests : Begin("p1", r)
    \/ StorageConnect("p1")
    \/ CacheConnect("p1")
    \/ CacheGet("p1")
    \/ ProviderSearch("p1")
    \/ StoreResults("p1")
    \/ CacheSetSearch("p1")
    \/ StoreMovie("p1")
    \/ Environment

SpecFacadeSearch == Init /\ [][NextFacadeSearch]_vars

\* two callers of download_and_process_subtitle for one pair, each with the
\* subtitle reference it was given, Redis and MongoDB reachable throughout
NextConcurrentDownload ==
    \/ \E p \in Procs, r \in DownloadRequests : Begin(p, r)
    \/ \E p \in Procs : LockGranted(p)
    \/ InitSteps(Procs)
    \/ \E p \in Procs : CacheGet(p)
    \/ \E p \in Procs : StoreGet(p)
    \/ \E p \in Procs : ProviderDownload(p)
    \/ \E p \in Procs : Process(p)
    \/ \E p \in Procs : WbCache(p)
    \/ \E p \in Procs : WbStore(p)
    \/ \E p \in Procs : WbStats(p)

SpecConcurrentDownload == Init /\ [][NextConcurrentDownload]_vars

(***************************************************************************)
(* SubtitleDatabase.initialize raced by two callers (specification         *)
(* SpecInit): both call get_subtitle_content on a facade not yet           *)
(* initialized.                                                            *)
(***************************************************************************)
InitRequests == {r \in Requests : r.op = "content" /\ r.movie_id = "m1"}

NextInit ==
    \/ \E p \in Procs, r \in InitRequests : Begin(p, r)
    \/ \E p \in Procs : LockGranted(p)
    \/ InitSteps(Procs)
    \/ \E p \in Procs : CacheGet(p)
    \/ \E p \in Procs : StoreGet(p)
    \/ MongoFlip
    \/ RedisFlip

SpecInit == Init /\ [][NextInit]_vars

(***************************************************************************)
(* RateLimiter (api_manager.py 16-36), shared by the coroutines that call  *)
(* acquire().  self.lock is an asyncio.Lock: FIFO and not reentrant.       *)
(***************************************************************************)
\* the comprehension of acquire 27-28: the calls still inside the window
InWindow(cs, t) == SelectSeq(cs, LAMBDA call_time : t - call_time < time_window)

\* acquire 30
AtCapacity_above(cs) == Len(cs) > max_calls
AtCapacity_early(cs) == Len(cs) + 1 >= max_calls
AtCapacity(cs) == Len(cs) >= max_calls

\* acquire 31
sleep_time(cs, t) == time_window - (t - cs[1])

\* acquire 25-36 run by the holder of the lock, up to asyncio.sleep or the return
AcquireBody(c) ==
    LET kept == InWindow(calls, clock)
    IN IF AtCapacity(kept) /\ sleep_time(kept, clock) > 0
       THEN /\ calls' = kept
            /\ lock' = [lock EXCEPT !.holder = Some(c)]
            /\ rl' = [rl EXCEPT ![c] = [pc |-> "sleeping",
                                        wake |-> clock + sleep_time(kept, clock)]]
            /\ UNCHANGED admitted
       ELSE /\ calls' = Append(kept, clock)
            /\ admitted' = Append(admitted, clock)
            /\ rl' = [rl EXCEPT ![c] = [pc |-> "idle", wake |-> 0]]
            /\ UNCHANGED lock

\* `async with self.lock` when the lock is held: the caller queues behind it
QueueOnLock(c) ==
    /\ lock' = [lock EXCEPT !.waiters = Append(@, c)]
    /\ rl' = [rl EXCEPT ![c] = [pc |-> "waiting", wake |-> 0]]
    /\ UNCHANGED <<calls, admitted>>

\* a call of acquire()
Acquire(c) ==
    /\ rl[c].pc = "idle"
    /\ Len(admitted) + Cardinality({d \in Procs : rl[d].pc # "idle"}) < MaxAcquires
    /\ clock + time_window <= MaxClock
    /\ IF lock.holder = None /\ lock.waiters = <<>>
       THEN AcquireBody(c)
       ELSE QueueOnLock(c)
    /\ UNCHANGED <<clock, dbVars>>

\* acquire 33-34: the sleep is over and the sleeper, still inside
\* `async with self.lock`, calls self.acquire() again
Wake(c) ==
    /\ rl[c].pc = "sleeping"
    /\ clock >= rl[c].wake
    /\ QueueOnLock(c)
    /\ UNCHANGED <<clock, dbVars>>

\* datetime.now() advances
TickRL ==
    /\ clock < MaxClock
    /\ clock' = clock + 1
    /\ UNCHANGED <<calls, lock, rl, admitted, dbVars>>

\* The lock is released only by AcquireBody's return, in the step that took it
\* free with nobody queued: no step hands the lock to a waiter.
NextRL ==
    \/ \E c \in Procs : Acquire(c)
    \/ \E c \in Procs : Wake(c)
    \/ TickRL

SpecRL == Init /\ [][NextRL]_vars

\* the event loop runs every coroutine that can run, and time passes
SpecRLFair ==
    /\ SpecRL
    /\ WF_vars(TickRL)
    /\ \A c \in Procs : WF_vars(Wake(c))

(***************************************************************************)
(* SubtitleStorage called directly (specification SpecStore): one caller,  *)
(* MongoDB reachable, calls made one after the other while time passes     *)
(* and MongoDB's TTL monitor removes expired documents.                    *)
(***************************************************************************)
\* the default min_quality_score and a stricter one
MinQualityScores == {50, 100}
StoreContents == {"text1"}

\* a storage call begins: `if not self._connected: await self.connect()`
StoreCall(p) ==
    /\ req[p].pc \in {"idle", "done"}
    /\ started < MaxStoreOps
    /\ started' = started + 1
    /\ _connected' = TRUE
    /\ UNCHANGED <<facadeVars, redis_client, envVars, redisVars, now, body_runs, rlVars, searchVars, apiVars>>

\* what a storage call leaves in the caller's hands
StoreReturn(o, k, value) ==
    [NoRequest EXCEPT !.op = o, !.movie_id = k[1], !.language = k[2],
                      !.pc = "done", !.outcome = "returned", !.result = value]

\* store_subtitle_metadata 132-183: replace_one with upsert, then
\* _update_movie_subtitle_count
store_subtitle_metadata(p, k, subtitle_data) ==
    /\ StoreCall(p)
    /\ LET written == [subtitles EXCEPT ![k] = Some(Document(k, subtitle_data))]
       IN /\ subtitles' = written
          /\ movies' = _update_movie_subtitle_count(written, k[1])
    /\ req' = [req EXCEPT ![p] =
                [StoreReturn("upsert", k, Some(TRUE)) EXCEPT
                    !.subtitle_info = Some(subtitle_data)]]
    /\ UNCHANGED <<gridfs, next_file_id, usage_stats>>

\* cache_subtitle_content 211-267
cache_subtitle_content(p, k, content) ==
    /\ StoreCall(p)
    /\ gridfs' = (gridfs \ FilesOf(k)) \cup {UploadedFile(k, content, TRUE)}
    /\ next_file_id' = next_file_id + 1
    /\ subtitles' = MarkCached(k, Str(ObjectId(next_file_id)))
    /\ req' = [req EXCEPT ![p] =
                StoreReturn("cache_blob", k, Some(Str(ObjectId(next_file_id))))]
    /\ UNCHANGED <<movies, usage_stats>>

\* get_subtitle_metadata 185-209
get_subtitle_metadata(p, k) ==
    /\ StoreCall(p)
    /\ usage_stats' = IF IsSome(FindLive(k)) THEN usage_stats \cup {<<"access", k>>}
                      ELSE usage_stats
    /\ req' = [req EXCEPT ![p] = StoreReturn("get_record", k, FindLive(k))]
    /\ UNCHANGED <<subtitles, gridfs, next_file_id, movies>>

\* get_subtitle_by_quality 616-638: find_one with the quality and expiry filters
get_subtitle_by_quality(p, k, min_quality_score) ==
    /\ StoreCall(p)
    /\ req' = [req EXCEPT ![p] =
        [StoreReturn("get_best", k,
            IF /\ IsSome(subtitles[k]) /\ Live(Val(subtitles[k]))
               /\ Val(subtitles[k]).quality_score >= min_quality_score
            THEN subtitles[k] ELSE None)
         EXCEPT !.min_quality_score = min_quality_score]]
    /\ UNCHANGED mongoVars

\* get_subtitles_by_movie 640-665: the documents of the movie, the expired ones
\* only with include_expired
get_subtitles_by_movie(p, m, include_expired) ==
    /\ StoreCall(p)
    /\ req' = [req EXCEPT ![p] =
        [StoreReturn("get_for_movie", <<m, "en">>,
            {Val(subtitles[k]) : k \in {x \in Keys :
                /\ x[1] = m /\ IsSome(subtitles[x])
                /\ (include_expired \/ Live(Val(subtitles[x])))}})
         EXCEPT !.include_expired = include_expired]]
    /\ UNCHANGED mongoVars

\* the query {"expires_at": {"$lt": datetime.utcnow()}}
\* variant: a query that selects nothing
Expired_never(doc) == FALSE
Expired(doc) == doc.expires_at[2] < now
ExpiredKeys == {k \in Keys : IsSome(subtitles[k]) /\ Expired(Val(subtitles[k]))}

\* cleanup_expired_subtitles 471-479: the file ids of the expired documents
cleanup_find(p) ==
    /\ StoreCall(p)
    /\ req' = [req EXCEPT ![p] =
        [NoRequest EXCEPT !.op = "sweep", !.pc = "sweep_delete",
            !.val = Some({Val(Val(subtitles[k]).gridfs_file_id) :
                            k \in {x \in ExpiredKeys :
                                    IsSome(Val(subtitles[x]).gridfs_file_id)}})]]
    /\ UNCHANGED mongoVars

\* cleanup_expired_subtitles 481-485: delete_many and its deleted_count
cleanup_delete(p) ==
    /\ req[p].pc = "sweep_delete"
    /\ subtitles' = [k \in Keys |-> IF k \in ExpiredKeys THEN None ELSE subtitles[k]]
    /\ req' = [req EXCEPT ![p] = [@ EXCEPT !.pc = "sweep_orphans",
                    !.result = [expired_metadata |-> Cardinality(ExpiredKeys)]]]
    /\ UNCHANGED <<facadeVars, _connected, redis_client, envVars, redisVars, gridfs,
                   next_file_id, movies, usage_stats, now, started, body_runs, rlVars, searchVars, apiVars>>

\* fs.delete(file_id) for each id: removes the files whose _id is one of them
fs_delete_all(files, file_ids) == {f \in files : f._id \notin file_ids}

\* _cleanup_orphaned_gridfs_files 502-544: the ids it passes to fs.delete are the
\* keys of gridfs_files, str(grid_file._id)
OrphanedIds(expired_file_ids) ==
    LET gridfs_files == {Str(f._id) : f \in gridfs}
        referenced_files ==
            {Val(Val(subtitles[k]).gridfs_file_id) :
                k \in {x \in Keys : /\ IsSome(subtitles[x])
                                    /\ IsSome(Val(subtitles[x]).gridfs_file_id)}}
            \ expired_file_ids
    IN gridfs_files \ referenced_files

\* _update_all_movie_subtitle_counts 1076-1090: one _update_movie_subtitle_count
\* per distinct movie_id
RECURSIVE UpdateAllMovies(_, _)
UpdateAllMovies(mv, movie_ids) ==
    IF movie_ids = {} THEN mv
    ELSE LET m == CHOOSE x \in movie_ids : TRUE
         IN UpdateAllMovies(UpdatedMovies(mv, subtitles, m), movie_ids \ {m})

\* cleanup_expired_subtitles 487-497: the orphaned files, the movie counts, return
cleanup_orphans(p) ==
    /\ req[p].pc = "sweep_orphans"
    /\ gridfs' = fs_delete_all(gridfs, OrphanedIds(Val(req[p].val)))
    /\ movies' = UpdateAllMovies(movies,
                    {k[1] : k \in {x \in Keys : IsSome(subtitles[x])}})
    /\ req' = [req EXCEPT ![p] = [@ EXCEPT !.pc = "done", !.outcome = "returned",
                                           !.val = None]]
    /\ UNCHANGED <<facadeVars, _connected, redis_client, envVars, redisVars, subtitles,
                   next_file_id, usage_stats, now, started, body_runs, rlVars, searchVars, apiVars>>

\* datetime.utcnow() advances
Elapse ==
    /\ now < MaxStoreTime
    /\ now' = now + 1
    /\ UNCHANGED <<facadeVars, _connected, redis_client, envVars, redisVars, mongoVars,
                   req, started, body_runs, rlVars, searchVars, apiVars>>

\* the TTL index on expires_at (storage.py 90): MongoDB removes a document
\* whose expires_at has passed
TtlMonitor ==
    /\ \E k \in Keys :
        /\ IsSome(subtitles[k]) /\ Val(subtitles[k]).expires_at[2] <= now
        /\ subtitles' = [subtitles EXCEPT ![k] = None]
    /\ UNCHANGED <<facadeVars, _connected, redis_client, envVars, redisVars, gridfs,
                   next_file_id, movies, usage_stats, now, req, started, body_runs,
                   rlVars, searchVars, apiVars>>

NextStore ==
    \/ \E k \in Keys, d \in SubtitleInfos : store_subtitle_metadata("p1", k, d)
    \/ \E k \in Keys, c \in StoreContents : cache_subtitle_content("p1", k, c)
    \/ \E k \in Keys : get_subtitle_metadata("p1", k)
    \/ \E k \in Keys, q \in MinQualityScores : get_subtitle_by_quality("p1", k, q)
    \/ \E m \in MovieIds, e \in BOOLEAN : get_subtitles_by_movie("p1", m, e)
    \/ cleanup_find("p1")
    \/ cleanup_delete("p1")
    \/ cleanup_orphans("p1")
    \/ Elapse
    \/ TtlMonitor

SpecStore == Init /\ [][NextStore]_vars

(***************************************************************************)
(* SubtitleAPIManager.search_subtitles (subtitle/api_manager.py).          *)
(* Texts that the code formats or searches (file names, language codes,    *)
(* release labels) are sequences of one-character strings.                 *)
(***************************************************************************)
\* number of items OpenSubtitles answers with
MaxItems == 3
\* `len(all_results) < 3`: SubDB is asked only below this many results
subdb_threshold == 3

Text_BluRay == <<"B", "l", "u", "R", "a", "y">>
Text_Blu_Ray == <<"B", "l", "u", "-", "R", "a", "y">>
Text_CAM == <<"C", "A", "M">>
Text_WEB_DL == <<"W", "E", "B", "-", "D", "L">>
Text_x_WEBRip == <<"x", ".", "W", "E", "B", "R", "i", "p">>
Text_en == <<"e", "n">>
Text_x_en == <<"x", "_", "e", "n">>
Text_a == <<"a">>
Text_a_x == <<"a", "_", "x">>

\* str.lower() on the letters that occur
LowerChar(c) ==
    CASE c = "A" -> "a" [] c = "B" -> "b" [] c = "C" -> "c" [] c = "D" -> "d"
      [] c = "E" -> "e" [] c = "L" -> "l" [] c = "M" -> "m" [] c = "R" -> "r"
      [] c = "W" -> "w" [] OTHER -> c
Lower(text) == [i \in DOMAIN text |-> LowerChar(text[i])]
\* `term in text`
Contains(text, term) ==
    \E i \in 1..(Len(text) - Len(term) + 1) :
        SubSeq(text, i, i + Len(term) - 1) = term
BonusTerms == {<<"b", "l", "u", "r", "a", "y">>,
               <<"w", "e", "b", "-", "d", "l">>,
               <<"w", "e", "b", "r", "i", "p">>}

\* dict.get(key, default)
Get(d, key, default) == IF key \in DOMAIN d THEN d[key] ELSE default

_calculate_quality_score_case_sensitive(attributes) ==
    attributes.download_count * 10
    + (IF \E term \in BonusTerms : Contains(attributes.release, term)
       THEN 100 ELSE 0)
_calculate_quality_score(attributes) ==
    attributes.download_count * 10
    + (IF \E term \in BonusTerms : Contains(Lower(attributes.release), term)
       THEN 100 ELSE 0)

\* sorted(results, key=quality_score, reverse=True): stable, so results of
\* equal score keep their order
RECURSIVE SortedByScore(_)
InsertByScore_append(sorted, r) == Append(sorted, r)
InsertByScore(sorted, r) ==
    LET before == {i \in DOMAIN sorted :
                       \A j \in 1..i : sorted[j].quality_score >= r.quality_score}
        n == Cardinality(before)
    IN  SubSeq(sorted, 1, n) \o <<r>> \o SubSeq(sorted, n + 1, Len(sorted))
SortedByScore(results) ==
    IF results = <<>> THEN <<>>
    ELSE InsertByScore(SortedByScore(SubSeq(results, 1, Len(results) - 1)),
                       results[Len(results)])

\* one processed OpenSubtitles item ('id', 'url' are carried along, unread)
Processed(attributes) ==
    [language |-> attributes.language,
     download_count |-> attributes.download_count,
     release |-> attributes.release,
     filename |-> attributes.file_name,
     format |-> "srt",
     provider |-> "opensubtitles",
     quality_score |-> _calculate_quality_score(attributes)]
_process_search_results(results) ==
    SortedByScore([i \in DOMAIN results |-> Processed(results[i])])

\* what SubDB answers when it lists the language for the hash
search_by_hash(language) ==
    <<[language |-> language, provider |-> "subdb", format |-> "srt",
       download_count |-> 0, quality_score |-> 50]>>

\* f"{result.get('filename', '')}_{result.get('language', '')}"
DedupKey(result) ==
    Get(result, "filename", <<>>) \o <<"_">> \o Get(result, "language", <<>>)
RECURSIVE _deduplicate_results(_)
_deduplicate_results(results) ==
    IF results = <<>> THEN <<>>
    ELSE LET front == SubSeq(results, 1, Len(results) - 1)
             last == results[Len(results)]
         IN  IF \E i \in DOMAIN front : DedupKey(front[i]) = DedupKey(last)
             THEN _deduplicate_results(front)
             ELSE Append(_deduplicate_results(front), last)

\* the attributes OpenSubtitles may answer with: every scoring case under
\* one file name and language, every file name and language under one score
ScoredReleases == {<<500, Text_BluRay>>, <<0, <<>>>>, <<1200, Text_BluRay>>,
                   <<5, Text_CAM>>, <<0, Text_WEB_DL>>, <<5, Text_x_WEBRip>>,
                   <<5, Text_Blu_Ray>>}
FileNames == {<<>>, Text_a, Text_a_x}
ItemLanguages == {Text_en, Text_x_en}
Attributes(download_count, release, file_name, language) ==
    [download_count |-> download_count, release |-> release,
     file_name |-> file_name, language |-> language]
RawItems ==
    {Attributes(sr[1], sr[2], Text_a, Text_en) : sr \in ScoredReleases}
    \cup {Attributes(0, <<>>, f, l) : f \in FileNames, l \in ItemLanguages}
    \cup {Attributes(5, Text_CAM, Text_a_x, Text_en)}
SeqsUpTo(S, n) == UNION {[1..k -> S] : k \in 0..n}


\* the language the caller asks for (the parameter's default, 'en')
SearchLanguage == Text_en

\* a call of search_subtitles with what the providers will answer; SubDB is
\* only ever asked when the caller gave a file hash
InitSearch ==
    /\ InitSystem /\ InitApiIdle
    /\ opensubtitles \in BOOLEAN
    /\ search_imdb_id \in {None} \cup {Some(m) : m \in CatalogIds}
    /\ os_items \in IF opensubtitles THEN SeqsUpTo(RawItems, MaxItems) ELSE {<<>>}
    /\ file_hash \in BOOLEAN
    /\ subdb_results \in IF file_hash THEN {<<>>, search_by_hash(SearchLanguage)}
                         ELSE {<<>>}
    /\ all_results = <<>> /\ search_return = <<>> /\ search_pc = "opensubtitles"
    /\ search_log = <<>>

\* OpenSubtitlesAPI.search_subtitles 119-124: the request is by imdb_id when
\* one is given and by the title otherwise (the title is never empty here)
SearchBy(imdb_id) == IF IsSome(imdb_id) THEN "imdb_id" ELSE "query"

\* if self.opensubtitles: all_results.extend(os_results), os_results being
\* the processed answer ([] when the call failed)
OpenSubtitlesSearch ==
    /\ search_pc = "opensubtitles"
    /\ IF opensubtitles
       THEN /\ all_results' = all_results \o _process_search_results(os_items)
            /\ search_log' = Append(search_log, [provider |-> "opensubtitles",
                                                 by |-> SearchBy(search_imdb_id)])
       ELSE UNCHANGED <<all_results, search_log>>
    /\ search_pc' = "subdb"
    /\ UNCHANGED <<facadeVars, _connected, redis_client, envVars, redisVars,
                   mongoVars, now, req, started, body_runs, rlVars,
                   os_items, file_hash, subdb_results, search_return,
                   opensubtitles, search_imdb_id, apiVars>>

\* len(all_results) < 3
NeedsMoreResults_always(results) == TRUE
NeedsMoreResults(results) == Len(results) < subdb_threshold

\* if file_hash and len(all_results) < 3: all_results.extend(subdb_results)
SubDBSearch ==
    /\ search_pc = "subdb"
    /\ IF file_hash /\ NeedsMoreResults(all_results)
       THEN /\ all_results' = all_results \o subdb_results
            /\ search_log' = Append(search_log, [provider |-> "subdb", by |-> "hash"])
       ELSE UNCHANGED <<all_results, search_log>>
    /\ search_pc' = "deduplicate"
    /\ UNCHANGED <<facadeVars, _connected, redis_client, envVars, redisVars,
                   mongoVars, now, req, started, body_runs, rlVars,
                   os_items, file_hash, subdb_results, search_return,
                   opensubtitles, search_imdb_id, apiVars>>

\* return sorted(self._deduplicate_results(all_results), ..., reverse=True)
SearchReturn ==
    /\ search_pc = "deduplicate"
    /\ search_return' = SortedByScore(_deduplicate_results(all_results))
    /\ search_pc' = "done"
    /\ UNCHANGED <<facadeVars, _connected, redis_client, envVars, redisVars,
                   mongoVars, now, req, started, body_runs, rlVars,
                   os_items, file_hash, subdb_results, all_results,
                   opensubtitles, search_imdb_id, search_log, apiVars>>

NextSearch == OpenSubtitlesSearch \/ SubDBSearch \/ SearchReturn

SpecSearch == InitSearch /\ [][NextSearch]_vars

(***************************************************************************)
(* SubtitleAPIManager._retry_operation (subtitle/api_manager.py).          *)
(***************************************************************************)
\* largest RATE_LIMIT_CONFIG['retry_attempts'] and ['retry_delay'] tried
MaxRetryAttempts == 3
MaxRetryDelay == 2

\* what one call of the operation does: return a value or raise
OperationValues == {"v1", "v2"}
OperationErrors == {"e1", "e2"}
Outcomes == {[kind |-> "call", raised |-> FALSE, value |-> v] : v \in OperationValues}
            \cup {[kind |-> "call", raised |-> TRUE, value |-> e] : e \in OperationErrors}

\* wait_time = self.retry_delay * (2 ** attempt)
wait_time_constant(delay, att) == delay
wait_time(delay, att) == delay * (2 ^ att)

\* the operation under retry: any coroutine that returns or raises, or one
\* of the two calls of OpenSubtitlesAPI the manager passes in
RetriedOperations == {"operation", "search_subtitles", "download_subtitle"}
\* what the OpenSubtitles server does with a request
Responses == {"200", "429", "500", "timeout"}
\* asyncio.sleep(60) of search_subtitles on a 429
rate_limit_sleep == 60

InitRetry ==
    /\ InitSystem
    /\ os_items = <<>> /\ file_hash = FALSE /\ subdb_results = <<>>
    /\ all_results = <<>> /\ search_return = <<>> /\ search_pc = "idle"
    /\ opensubtitles = TRUE /\ search_imdb_id = None /\ search_log = <<>>
    /\ retry_attempts \in 1..MaxRetryAttempts
    /\ retry_delay \in 1..MaxRetryDelay
    /\ retry_op \in RetriedOperations
    /\ attempt = 0 /\ last_exception = None /\ retry_pc = "call"
    /\ retry_result = None /\ retry_log = <<>>
    /\ InitProbeIdle /\ InitTokenIdle /\ InitCounterIdle /\ InitCallIdle

\* one pass of the loop, the awaited operation having logged `inside` and
\* ended as o: on an exception the bookkeeping up to the sleep or, on the
\* last attempt, past the loop to `raise last_exception`
RetryPass(inside, o) ==
    /\ IF ~o.raised
       THEN /\ retry_pc' = "returned" /\ retry_result' = Some(o.value)
            /\ retry_log' = retry_log \o inside \o <<o>>
            /\ UNCHANGED last_exception
       ELSE /\ last_exception' = Some(o.value)
            /\ IF attempt < retry_attempts - 1
               THEN /\ retry_pc' = "sleep"
                    /\ retry_log' = retry_log \o inside \o
                           <<o, [kind |-> "sleep",
                                 wait |-> wait_time(retry_delay, attempt)]>>
                    /\ UNCHANGED retry_result
               ELSE /\ retry_pc' = "raised"
                    /\ retry_result' = Some(o.value)
                    /\ retry_log' = retry_log \o inside \o <<o>>
    /\ UNCHANGED <<facadeVars, _connected, redis_client, envVars, redisVars,
                   mongoVars, now, req, started, body_runs, rlVars, searchVars,
                   retry_attempts, retry_delay, retry_op, attempt, probeVars,
                   tokenVars, counterVars, callVars>>

\* await operation(*args, **kwargs) for a coroutine that returns or raises
RetryCall ==
    /\ retry_pc = "call" /\ retry_op = "operation"
    /\ \E o \in Outcomes : RetryPass(<<>>, o)

\* OpenSubtitlesAPI.search_subtitles 111-149 and download_subtitle 198-224,
\* authenticated: what the call returns for each response, every exception
\* of the request being caught inside
ProviderValue(op, status) ==
    IF op = "search_subtitles"
    THEN IF status = "200" THEN <<R1>> ELSE <<>>
    ELSE IF status = "200" THEN Some("srt1") ELSE None
\* the response, and the sleep of search_subtitles on a 429
ProviderLog(op, status) ==
    <<[kind |-> "response", status |-> status]>>
    \o IF op = "search_subtitles" /\ status = "429"
       THEN <<[kind |-> "provider_sleep", wait |-> rate_limit_sleep]>>
       ELSE <<>>

\* await operation(*args, **kwargs) for a call of OpenSubtitlesAPI
ProviderCall ==
    /\ retry_pc = "call" /\ retry_op # "operation"
    /\ \E status \in Responses :
           RetryPass(ProviderLog(retry_op, status),
                     [kind |-> "call", raised |-> FALSE,
                      value |-> ProviderValue(retry_op, status)])

\* asyncio.sleep(wait_time) is over: the next pass of the loop
RetryWake ==
    /\ retry_pc = "sleep"
    /\ attempt' = attempt + 1
    /\ retry_pc' = "call"
    /\ UNCHANGED <<facadeVars, _connected, redis_client, envVars, redisVars,
                   mongoVars, now, req, started, body_runs, rlVars, searchVars,
                   retry_attempts, retry_delay, retry_op, last_exception,
                   retry_result, retry_log, probeVars, tokenVars,
                   counterVars, callVars>>

NextRetry == RetryCall \/ ProviderCall \/ RetryWake

SpecRetry == InitRetry /\ [][NextRetry]_vars

(***************************************************************************)
(* SubtitleAPIManager.get_available_languages (subtitle/api_manager.py):   *)
(* one check_language task per language, all started by asyncio.gather.    *)
(***************************************************************************)
\* how the search of one task ends: with results, with none, by raising
ProbeOutcomes == {"results", "empty", "raised"}

InitProbe ==
    /\ InitSystem /\ InitRetryIdle /\ InitTokenIdle /\ InitCounterIdle /\ InitCallIdle
    /\ os_items = <<>> /\ file_hash = FALSE /\ subdb_results = <<>>
    /\ all_results = <<>> /\ search_return = <<>> /\ search_pc = "idle"
    /\ opensubtitles = TRUE /\ search_imdb_id = None /\ search_log = <<>>
    /\ probe_pc = [l \in check_languages |-> "waiting"]
    /\ probe_outcome = [l \in check_languages |-> "none"]
    /\ searches = [l \in check_languages |-> 0]
    /\ semaphore = concurrent_requests
    /\ available_languages = {} /\ languages_return = None

\* asyncio.Semaphore.acquire goes through while the value is positive
SemaphoreFree_always(value) == TRUE
SemaphoreFree(value) == value > 0

\* async with semaphore: ... await self.search_subtitles(movie_title, imdb_id, lang)
ProbeEnter(l) ==
    /\ probe_pc[l] = "waiting"
    /\ SemaphoreFree(semaphore)
    /\ semaphore' = semaphore - 1
    /\ probe_pc' = [probe_pc EXCEPT ![l] = "searching"]
    /\ searches' = [searches EXCEPT ![l] = @ + 1]
    /\ UNCHANGED <<facadeVars, _connected, redis_client, envVars, redisVars,
                   mongoVars, now, req, started, body_runs, rlVars, searchVars,
                   retryVars, tokenVars, counterVars, callVars,
                   probe_outcome, available_languages, languages_return>>

\* if results: available_languages.add(lang)
Adds_unless_empty(outcome) == outcome # "empty"
Adds(outcome) == outcome = "results"

\* the search is over: the language is added, or the exception is logged,
\* and the semaphore is released
ProbeSearchEnd(l) ==
    /\ probe_pc[l] = "searching"
    /\ \E outcome \in ProbeOutcomes :
        /\ probe_outcome' = [probe_outcome EXCEPT ![l] = outcome]
        /\ available_languages' = IF Adds(outcome) THEN available_languages \cup {l}
                                  ELSE available_languages
    /\ semaphore' = semaphore + 1
    /\ probe_pc' = [probe_pc EXCEPT ![l] = "done"]
    /\ UNCHANGED <<facadeVars, _connected, redis_client, envVars, redisVars,
                   mongoVars, now, req, started, body_runs, rlVars, searchVars,
                   retryVars, tokenVars, counterVars, callVars,
                   searches, languages_return>>

\* asyncio.gather is over; return sorted(list(available_languages)), kept
\* here as the set of its elements
GatherReturn ==
    /\ languages_return = None
    /\ \A l \in check_languages : probe_pc[l] = "done"
    /\ languages_return' = Some(available_languages)
    /\ UNCHANGED <<facadeVars, _connected, redis_client, envVars, redisVars,
                   mongoVars, now, req, started, body_runs, rlVars, searchVars,
                   retryVars, tokenVars, counterVars, callVars,
                   probe_pc, probe_outcome, searches, semaphore,
                   available_languages>>

NextProbe ==
    \/ \E l \in check_languages : ProbeEnter(l)
    \/ \E l \in check_languages : ProbeSearchEnd(l)
    \/ GatherReturn

SpecProbe == InitProbe /\ [][NextProbe]_vars

(***************************************************************************)
(* OpenSubtitlesAPI (subtitle/api_manager.py): search_subtitles and        *)
(* download_subtitle called concurrently on one instance, past the rate    *)
(* limiter.  A step runs from one suspending await to the next.            *)
(***************************************************************************)
ApiOperations == {"search_subtitles", "download_subtitle"}

InitToken ==
    /\ InitSystem /\ InitRetryIdle /\ InitProbeIdle /\ InitCounterIdle /\ InitCallIdle
    /\ os_items = <<>> /\ file_hash = FALSE /\ subdb_results = <<>>
    /\ all_results = <<>> /\ search_return = <<>> /\ search_pc = "idle"
    /\ opensubtitles = TRUE /\ search_imdb_id = None /\ search_log = <<>>
    /\ credentials \in BOOLEAN
    /\ token = None /\ token_expires = None
    /\ api_now = 0 /\ issued = 0
    /\ os = [c \in Procs |-> NoCall]

\* not self.token or (self.token_expires and datetime.now() >= self.token_expires)
NeedsLogin_never == FALSE
NeedsLogin ==
    token = None \/ (token_expires # None /\ api_now >= Val(token_expires))

\* what a call returns without a result: [] or None
Nothing(op) == IF op = "search_subtitles" THEN <<>> ELSE None
\* what a request returns: the 200 answer or nothing
Answers(op) == IF op = "search_subtitles" THEN {<<>>, <<R1>>} ELSE {None, Some("srt1")}

\* the call up to its first suspension: _ensure_authenticated, then either
\* the POST of _login, or _login's return for want of credentials, or the
\* headers with self.token and the request
ApiCall(c, op) ==
    /\ os[c].pc \in {"idle", "done"}
    /\ os' = [os EXCEPT ![c] =
                IF NeedsLogin
                THEN IF credentials
                     THEN [NoCall EXCEPT !.pc = "login", !.op = op, !.logins = 1]
                     ELSE [NoCall EXCEPT !.pc = "done", !.op = op, !.result = Nothing(op)]
                ELSE [NoCall EXCEPT !.pc = "request", !.op = op, !.requests = 1,
                                    !.bearer = token]]
    /\ UNCHANGED <<facadeVars, _connected, redis_client, envVars, redisVars,
                   mongoVars, now, req, started, body_runs, rlVars, searchVars,
                   retryVars, probeVars, counterVars, callVars,
                   credentials, token, token_expires,
                   api_now, issued>>

\* the POST of _login is answered: on a 200 the token and its expiry are
\* set and the request goes out with that token; otherwise the call returns
LoginEnd(c) ==
    /\ os[c].pc = "login"
    /\ \E ok \in BOOLEAN :
        IF ok
        THEN /\ issued' = issued + 1
             /\ token' = Some(issued + 1)
             /\ token_expires' = Some(api_now + token_validity)
             /\ os' = [os EXCEPT ![c].pc = "request", ![c].requests = 1,
                                 ![c].bearer = Some(issued + 1)]
        ELSE /\ os' = [os EXCEPT ![c].pc = "done", ![c].result = Nothing(os[c].op)]
             /\ UNCHANGED <<issued, token, token_expires>>
    /\ UNCHANGED <<facadeVars, _connected, redis_client, envVars, redisVars,
                   mongoVars, now, req, started, body_runs, rlVars, searchVars,
                   retryVars, probeVars, counterVars, callVars,
                   credentials, api_now>>

\* the request is answered
RequestEnd(c) ==
    /\ os[c].pc = "request"
    /\ \E answer \in Answers(os[c].op) :
           os' = [os EXCEPT ![c].pc = "done", ![c].result = answer]
    /\ UNCHANGED <<facadeVars, _connected, redis_client, envVars, redisVars,
                   mongoVars, now, req, started, body_runs, rlVars, searchVars,
                   retryVars, probeVars, counterVars, callVars,
                   credentials, token, token_expires,
                   api_now, issued>>

\* datetime.now() moves on
TickApi ==
    /\ api_now < MaxApiTime
    /\ api_now' = api_now + 1
    /\ UNCHANGED <<facadeVars, _connected, redis_client, envVars, redisVars,
                   mongoVars, now, req, started, body_runs, rlVars, searchVars,
                   retryVars, probeVars, counterVars, callVars,
                   credentials, token, token_expires,
                   issued, os>>

NextToken ==
    \/ \E c \in Procs, op \in ApiOperations : ApiCall(c, op)
    \/ \E c \in Procs : LoginEnd(c)
    \/ \E c \in Procs : RequestEnd(c)
    \/ TickApi

SpecToken == InitToken /\ [][NextToken]_vars

(***************************************************************************)
(* CacheManager.increment_rate_limit (subtitle/cache_manager.py) called    *)
(* concurrently for one (identifier, window) on one CacheManager, while    *)
(* Redis comes and goes and expires the key.                               *)
(***************************************************************************)
\* int(current) if current else 0
CountOf(current) == IF current = None THEN 0 ELSE Val(current)

\* return True, 0: the request is allowed when Redis cannot be asked
FailOpen_closed == <<FALSE, 0>>
FailOpen == <<TRUE, 0>>

\* asyncio.Lock: taken or not
Locked_never(l) == FALSE
Locked(l) == l.holder # None

\* leaving `async with self._lock`: the lock passes to its first waiter,
\* which goes on to the GET
Released(l) ==
    IF l.waiters = <<>> THEN [holder |-> None, waiters |-> <<>>]
    ELSE [holder |-> Some(Head(l.waiters)), waiters |-> Tail(l.waiters)]
Leave(c, result) ==
    LET l == Released(cm_lock)
    IN  /\ cm_lock' = l
        /\ inc' = [d \in Procs |->
                     IF d = c THEN [inc[c] EXCEPT !.pc = "done", !.result = Some(result)]
                     ELSE IF l.holder = Some(d) /\ inc[d].pc = "queued"
                          THEN [inc[d] EXCEPT !.pc = "get"]
                          ELSE inc[d]]

otherThanCounter == <<facadeVars, _connected, envVars, redisVars, mongoVars, now, req,
                      started, body_runs, rlVars, searchVars, retryVars, probeVars,
                      tokenVars, callVars>>

\* CacheManager.connect: redis_client is set once Redis answers
ConnectCache ==
    /\ ~redis_client /\ redis_up
    /\ redis_client' = TRUE
    /\ UNCHANGED <<otherThanCounter, counterVars>>

\* the call up to its first suspension: (True, 0) without a client, else
\* the lock is taken, or waited for
IncrementBegin(c) ==
    /\ inc[c].pc \in {"idle", "done"}
    /\ inc_calls < MaxIncrements
    /\ inc_calls' = inc_calls + 1
    /\ IF ~redis_client
       THEN /\ inc' = [inc EXCEPT ![c] = [NoIncrement EXCEPT !.pc = "done",
                                                           !.result = Some(FailOpen)]]
            /\ UNCHANGED cm_lock
       ELSE IF Locked(cm_lock)
            THEN /\ cm_lock' = [cm_lock EXCEPT !.waiters = Append(@, c)]
                 /\ inc' = [inc EXCEPT ![c] = [NoIncrement EXCEPT !.pc = "queued"]]
            ELSE /\ cm_lock' = [cm_lock EXCEPT !.holder = Some(c)]
                 /\ inc' = [inc EXCEPT ![c] = [NoIncrement EXCEPT !.pc = "get"]]
    /\ UNCHANGED <<otherThanCounter, redis_client, rate_count, rate_expires>>

\* current = await self.redis_client.get(key) is answered: the limit is
\* reached, or the pipeline is sent; an error of Redis allows the request
IncrementGet(c) ==
    /\ inc[c].pc = "get"
    /\ IF ~redis_up THEN Leave(c, FailOpen)
       ELSE IF CountOf(rate_count) >= max_requests
            THEN Leave(c, <<FALSE, CountOf(rate_count)>>)
            ELSE /\ inc' = [inc EXCEPT ![c].pc = "execute",
                                       ![c].current_count = CountOf(rate_count)]
                 /\ UNCHANGED cm_lock
    /\ UNCHANGED <<otherThanCounter, redis_client, rate_count, rate_expires, inc_calls>>

\* results = await pipe.execute() is answered: INCR, and EXPIRE when the
\* count read was 0
IncrementExecute(c) ==
    /\ inc[c].pc = "execute"
    /\ IF ~redis_up
       THEN /\ Leave(c, FailOpen)
            /\ UNCHANGED <<rate_count, rate_expires>>
       ELSE /\ rate_count' = Some(CountOf(rate_count) + 1)
            /\ rate_expires' = (rate_expires \/ inc[c].current_count = 0)
            /\ Leave(c, <<TRUE, CountOf(rate_count) + 1>>)
    /\ UNCHANGED <<otherThanCounter, redis_client, inc_calls>>

\* Redis removes the key at its expiry
KeyExpires ==
    /\ rate_count # None /\ rate_expires
    /\ rate_count' = None /\ rate_expires' = FALSE
    /\ UNCHANGED <<otherThanCounter, redis_client, cm_lock, inc, inc_calls>>

NextCounter ==
    \/ ConnectCache
    \/ \E c \in Procs : IncrementBegin(c)
    \/ \E c \in Procs : IncrementGet(c)
    \/ \E c \in Procs : IncrementExecute(c)
    \/ KeyExpires
    \/ RedisFlip

SpecCounter == Init /\ [][NextCounter]_vars

(***************************************************************************)
(* CacheManager over the Redis keyspace: set_subtitle_content and          *)
(* invalidate_movie_cache.  A key is the string _make_key builds, here a   *)
(* sequence of characters; KEYS matches a glob pattern against every key   *)
(* of the database.                                                        *)
(***************************************************************************)
\* CACHE_CONFIG['redis_prefix']
redis_prefix == <<"subtitle:">>

\* ':'.join(parts)
RECURSIVE Join(_)
Join(parts) ==
    IF Len(parts) = 0 THEN <<>>
    ELSE IF Len(parts) = 1 THEN parts[1]
    ELSE parts[1] \o <<":">> \o Join(Tail(parts))

\* CacheManager._make_key
_make_key(parts) == redis_prefix \o Join(parts)

\* Redis glob matching of KEYS: '*' matches any run of characters, every
\* other character of the movie ids and languages used here matches itself
RECURSIVE GlobMatch(_, _)
GlobMatch(pattern, key) ==
    IF pattern = <<>> THEN key = <<>>
    ELSE IF Head(pattern) = "*"
         THEN \/ GlobMatch(Tail(pattern), key)
              \/ key # <<>> /\ GlobMatch(pattern, Tail(key))
    ELSE key # <<>> /\ Head(pattern) = Head(key) /\ GlobMatch(Tail(pattern), Tail(key))

\* movie ids are IMDb ids or, without one, movie titles (subtitle_db.py 175-177)
CacheMovieIds == {<<"a">>, <<"a", ":", "b">>}
CacheLangs == {<<"en">>, <<"es">>}
CacheKeys == CacheMovieIds \X CacheLangs
CacheQueries == {<<"a">>} \X {<<"en">>}
CacheContents == {"srt1", "full", "big"}

\* the key string of an entry of a namespace
KeyOf(ns, k) ==
    CASE ns = "languages" -> _make_key(<<<<"languages">>, k>>)
      [] ns = "rate_limit" -> _make_key(<<<<"rate_limit">>, <<"minute">>, <<"u1">>>>)
      [] OTHER -> _make_key(<<<<ns>>, k[1], k[2]>>)

\* the entries Redis holds
Present ==
    {<<"metadata", k>> : k \in {j \in DOMAIN r_metadata : r_metadata[j] # None}}
    \cup {<<"content", k>> : k \in {j \in DOMAIN r_content : r_content[j] # None}}
    \cup {<<"languages", k>> : k \in {j \in DOMAIN r_languages : r_languages[j] # None}}
    \cup {<<"search", k>> : k \in {j \in DOMAIN r_search : r_search[j] # None}}
    \cup (IF rate_count # None THEN {<<"rate_limit", <<>>>>} ELSE {})

\* redis_client.keys(pattern)
KEYS(pattern) == {e \in Present : GlobMatch(pattern, KeyOf(e[1], e[2]))}

\* redis_client.delete(*keys), on one namespace
Deleted(r, ns, keys) == [k \in DOMAIN r |-> IF <<ns, k>> \in keys THEN None ELSE r[k]]

\* the patterns invalidate_movie_cache looks up, in order
Patterns(movie_id) ==
    << _make_key(<<<<"metadata">>, movie_id, <<"*">>>>),
       _make_key(<<<<"content">>, movie_id, <<"*">>>>),
       _make_key(<<<<"languages">>, movie_id>>) >>

\* some entries are cached, the client is connected or not
InitCache ==
    /\ InitUnconnected
    /\ redis_client \in BOOLEAN
    /\ r_content \in [CacheKeys -> {None, Some("old")}]
    /\ r_metadata \in [CacheKeys -> {None, Some("meta")}]
    /\ r_languages \in [CacheMovieIds -> {None, Some("langs")}]
    /\ r_search \in [CacheQueries -> {None, Some("results")}]
    /\ subtitles = [k \in Keys |-> None]
    /\ os_items = <<>> /\ file_hash = FALSE /\ subdb_results = <<>>
    /\ all_results = <<>> /\ search_return = <<>> /\ search_pc = "idle"
    /\ opensubtitles = TRUE /\ search_imdb_id = None /\ search_log = <<>>
    /\ InitRetryIdle /\ InitProbeIdle /\ InitTokenIdle /\ InitCallIdle
    /\ rate_count \in {None, Some(1)} /\ rate_expires = (rate_count # None)
    /\ cm_lock = [holder |-> None, waiters |-> <<>>]
    /\ inc = [c \in Procs |-> NoIncrement]
    /\ inc_calls = 0

otherThanCache == <<facadeVars, _connected, redis_client, mongoVars, now, req, started,
                    body_runs, rlVars, searchVars, retryVars, probeVars, tokenVars,
                    cm_lock, inc, inc_calls>>

\* CacheManager.set_subtitle_content: False without a client, above
\* max_cache_size or when setex raises; else the entry is set and True
SetSubtitleContent ==
    \E k \in CacheKeys, content \in CacheContents :
        /\ cm_call.pc = "idle"
        /\ r_content' = set_subtitle_content(k, content)
        /\ cm_call' = [cm_call EXCEPT !.op = "set_subtitle_content", !.pc = "done",
                                      !.movie_id = k[1], !.language = k[2],
                                      !.content = content,
                                      !.result = Some(content_accepted(content))]
        /\ UNCHANGED <<otherThanCache, envVars, r_metadata, r_languages, r_search,
                       rate_count, rate_expires>>

\* the loop over the patterns moves on, or the call returns
NextPattern(c) ==
    IF c.pattern < Len(Patterns(c.movie_id))
    THEN [c EXCEPT !.pc = "keys", !.pattern = @ + 1, !.keys = {}]
    ELSE [c EXCEPT !.pc = "done", !.keys = {}]

\* invalidate_movie_cache up to its first Redis call
InvalidateBegin ==
    \E movie_id \in CacheMovieIds :
        /\ cm_call.pc = "idle"
        /\ cm_call' = [cm_call EXCEPT !.op = "invalidate_movie_cache",
                                      !.movie_id = movie_id,
                                      !.pc = IF redis_client THEN "keys" ELSE "done",
                                      !.pattern = IF redis_client THEN 1 ELSE 0]
        /\ UNCHANGED <<otherThanCache, envVars, redisVars, rate_count, rate_expires>>

\* keys = await self.redis_client.keys(pattern); `if keys:`
InvalidateKeys ==
    /\ cm_call.pc = "keys"
    /\ LET keys == KEYS(Patterns(cm_call.movie_id)[cm_call.pattern])
       IN  cm_call' = IF ~redis_up THEN [cm_call EXCEPT !.pc = "done"]
                      ELSE IF keys = {} THEN NextPattern(cm_call)
                      ELSE [cm_call EXCEPT !.pc = "delete", !.keys = keys]
    /\ UNCHANGED <<otherThanCache, envVars, redisVars, rate_count, rate_expires>>

\* await self.redis_client.delete(*keys)
InvalidateDelete ==
    /\ cm_call.pc = "delete"
    /\ IF ~redis_up
       THEN /\ cm_call' = [cm_call EXCEPT !.pc = "done"]
            /\ UNCHANGED <<redisVars, rate_count, rate_expires>>
       ELSE /\ cm_call' = NextPattern(cm_call)
            /\ r_metadata' = Deleted(r_metadata, "metadata", cm_call.keys)
            /\ r_content' = Deleted(r_content, "content", cm_call.keys)
            /\ r_languages' = Deleted(r_languages, "languages", cm_call.keys)
            /\ r_search' = Deleted(r_search, "search", cm_call.keys)
            /\ rate_count' = IF <<"rate_limit", <<>>>> \in cm_call.keys THEN None
                             ELSE rate_count
            /\ rate_expires' = (rate_expires /\ rate_count' # None)
    /\ UNCHANGED <<otherThanCache, envVars>>

NextCache ==
    \/ SetSubtitleContent
    \/ InvalidateBegin
    \/ InvalidateKeys
    \/ InvalidateDelete
    \/ RedisFlip

SpecCache == InitCache /\ [][NextCache]_vars

(***************************************************************************)
(* SubtitleStorage.cache_subtitle_content step by step, called by two      *)
(* coroutines for one (movie_id, language) (specification SpecBlob), and   *)
(* together with store_subtitle_metadata and bulk_store_subtitles          *)
(* (specification SpecRecord).  MongoDB is reachable throughout.           *)
(***************************************************************************)
BlobKey == <<"m1", "en">>
BlobContents == {"text1", "text2"}

\* the record of the pair exists before the calls, or does not
InitBlob ==
    /\ InitUnconnected /\ InitApiIdle
    /\ redis_client = FALSE
    /\ r_content = [k \in Keys |-> None]
    /\ r_metadata = [k \in Keys |-> None]
    /\ r_languages = [m \in MovieIds |-> None]
    /\ r_search = [q \in Titles \X Langs |-> None]
    /\ subtitles \in [Keys -> {None} \cup {Some(Document(k, d)) : k \in Keys, d \in SubtitleInfos}]
    /\ os_items = <<>> /\ file_hash = FALSE /\ subdb_results = <<>>
    /\ all_results = <<>> /\ search_return = <<>> /\ search_pc = "idle"
    /\ opensubtitles = TRUE /\ search_imdb_id = None /\ search_log = <<>>

\* the steps of a storage call after its first
blobFrame == <<facadeVars, _connected, redis_client, envVars, redisVars, now, started,
               body_runs, rlVars, searchVars, apiVars>>

\* cache_subtitle_content 211-226: connected, the file name and the bytes
BlobBegin(p) ==
    \E content \in BlobContents :
        /\ StoreCall(p)
        /\ req' = [req EXCEPT ![p] =
                    [NoRequest EXCEPT !.op = "cache_blob", !.pc = "blob_find",
                                      !.val = Some(content)]]
        /\ UNCHANGED mongoVars

\* `async for grid_file in self.fs.find({"filename": filename})`: the cursor's
\* batch holds the files of the name at the time of the query
BlobFind(p) ==
    /\ req[p].pc = "blob_find"
    /\ LET found == {f._id : f \in FilesOf(BlobKey)}
       IN req' = [req EXCEPT ![p] =
                    [@ EXCEPT !.result = found,
                              !.pc = IF found = {} THEN "blob_upload" ELSE "blob_delete"]]
    /\ UNCHANGED <<mongoVars, blobFrame>>

\* `await self.fs.delete(grid_file._id)`: NoFile is raised for a file that is
\* gone, and the method's except returns None
BlobDelete(p) ==
    /\ req[p].pc = "blob_delete"
    /\ \E id \in req[p].result :
        IF id \in {f._id : f \in gridfs}
        THEN /\ gridfs' = fs_delete_all(gridfs, {id})
             /\ req' = [req EXCEPT ![p] =
                         [@ EXCEPT !.result = @ \ {id},
                                   !.pc = IF req[p].result = {id} THEN "blob_upload"
                                          ELSE "blob_delete"]]
        ELSE /\ UNCHANGED gridfs
             /\ req' = [req EXCEPT ![p] =
                         [@ EXCEPT !.pc = "done", !.outcome = "returned",
                                   !.result = None]]
    /\ UNCHANGED <<subtitles, next_file_id, movies, usage_stats, blobFrame>>

\* file_id = await self.fs.upload_from_stream(...)
BlobUpload(p) ==
    /\ req[p].pc = "blob_upload"
    /\ gridfs' = gridfs \cup {UploadedFile(BlobKey, Val(req[p].val), TRUE)}
    /\ next_file_id' = next_file_id + 1
    /\ req' = [req EXCEPT ![p] = [@ EXCEPT !.pc = "blob_mark", !.i = next_file_id]]
    /\ UNCHANGED <<subtitles, movies, usage_stats, blobFrame>>

\* update_one on the record of the pair (no upsert); return str(file_id)
BlobMark(p) ==
    /\ req[p].pc = "blob_mark"
    /\ subtitles' = MarkCached(BlobKey, Str(ObjectId(req[p].i)))
    /\ req' = [req EXCEPT ![p] =
                [@ EXCEPT !.pc = "done", !.outcome = "returned",
                          !.result = Some(Str(ObjectId(req[p].i)))]]
    /\ UNCHANGED <<gridfs, next_file_id, movies, usage_stats, blobFrame>>

\* bulk_store_subtitles 700-759 with a list of one entry: bulk_write of a
\* replaceOne with upsert, the replacement saying cached_content False
bulk_store_subtitles(p, k, data) ==
    /\ StoreCall(p)
    /\ subtitles' = [subtitles EXCEPT ![k] = Some(Document(k, data))]
    /\ req' = [req EXCEPT ![p] = StoreReturn("bulk_upsert", k, Some(1))]
    /\ UNCHANGED <<gridfs, next_file_id, movies, usage_stats>>

NextBlob ==
    \/ \E p \in Procs : BlobBegin(p)
    \/ \E p \in Procs : BlobFind(p)
    \/ \E p \in Procs : BlobDelete(p)
    \/ \E p \in Procs : BlobUpload(p)
    \/ \E p \in Procs : BlobMark(p)

SpecBlob ==
    /\ InitBlob
    /\ [][NextBlob]_vars

NextRecord ==
    \/ \E p \in Procs : BlobBegin(p)
    \/ \E p \in Procs : BlobFind(p)
    \/ \E p \in Procs : BlobDelete(p)
    \/ \E p \in Procs : BlobUpload(p)
    \/ \E p \in Procs : BlobMark(p)
    \/ \E p \in Procs, d \in SubtitleInfos : store_subtitle_metadata(p, BlobKey, d)
    \/ \E p \in Procs, d \in SubtitleInfos : bulk_store_subtitles(p, BlobKey, d)

SpecRecord == InitBlob /\ [][NextRecord]_vars

(***************************************************************************)
(* Properties of the read paths (specification Spec).                      *)
(***************************************************************************)
Has(t, e) == \E i \in DOMAIN t : t[i] = e
\* the step in which the call of p returns
Returns(p) == req[p].pc # "done" /\ req'[p].pc = "done"
\* what the blob store holds for each key
BlobStore == [k \in Keys |-> StoredContent(k)]
\* the languages of the live documents of a movie
StoredLanguages == [m \in MovieIds |-> {k[2] : k \in LiveKeysOf(m)}]

\* the tier an event of a download belongs to
Tier(e) ==
    CASE e \in {"cache_hit", "cache_miss", "cache_down"} -> 1
      [] e \in {"store_hit", "store_miss", "store_fail"} -> 2
      [] e = "provider" -> 3
      [] e = "process" -> 4
      [] OTHER -> 5
TierOrder(t) ==
    /\ \A i, j \in DOMAIN t : i < j => Tier(t[i]) <= Tier(t[j])
    /\ \A i \in DOMAIN t : t[i] = "provider" =>
            /\ i = 3
            /\ t[1] \in {"cache_miss", "cache_down"}
            /\ t[2] \in {"store_miss", "store_fail"}

\* C1, as claimed: a download_and_process_subtitle that returns processed content
\* visited cache, store, provider, processor and write-back in this order, called
\* the provider only after the cache and the store gave nothing, and at its return
\* the cache and the blob store both hold the content it returns.
C1_WrittenToBothBeforeReturn ==
    [][\A p \in Procs :
        (/\ Returns(p)
         /\ req'[p].op = "download"
         /\ Has(req'[p].trace, "process")
         /\ IsSome(req'[p].result))
        => /\ TierOrder(req'[p].trace)
           /\ r_content'[Key(req'[p])] = req'[p].result
           /\ BlobStore'[Key(req'[p])] = req'[p].result]_vars

\* C2, as claimed: when get_subtitle_info or get_subtitle_content misses the cache
\* and the store yields a value, then at the return the cache, if reachable (and
\* the content within max_cache_size), holds that same value.
C2_CacheHoldsSameValue ==
    [][\A p \in Procs :
        (/\ Returns(p)
         /\ req'[p].op \in {"info", "content"}
         /\ Has(req'[p].trace, "store_hit")
         /\ CacheReachable)
        => /\ req'[p].op = "content" => r_content'[Key(req'[p])] = req'[p].result
           /\ req'[p].op = "info" => r_metadata'[Key(req'[p])] = req'[p].result]_vars

\* C2, amended: at that return the cache holds the JSON form of the value: the
\* content string itself, and the metadata document with its timestamps as ISO
\* strings, which is what the next read of the key gets from the cache.
C2_CacheHoldsSerializedValue ==
    [][\A p \in Procs :
        (/\ Returns(p)
         /\ req'[p].op \in {"info", "content"}
         /\ Has(req'[p].trace, "store_hit")
         /\ CacheReachable)
        => /\ req'[p].op = "content" =>
                (ContentSize(Val(req'[p].result)) <= max_cache_size
                    => r_content'[Key(req'[p])] = req'[p].result)
           /\ req'[p].op = "info" =>
                r_metadata'[Key(req'[p])] =
                    Some(_prepare_for_serialization(Val(req'[p].result)))]_vars

\* a get_subtitle_info has returned a stored document and the cache holds its
\* serialized form
C2_Witness ==
    \E p \in Procs :
        /\ req[p].pc = "done" /\ req[p].op = "info"
        /\ req[p].trace = <<"cache_miss", "store_hit", "cache_set">>
        /\ IsSome(req[p].result)
        /\ r_metadata[Key(req[p])] = Some(_prepare_for_serialization(Val(req[p].result)))

\* C3: a cache hit is the only tier event of its call, which returns a value at
\* once (no store read or write, no provider call); after a store hit only the
\* cache write-back follows (no provider call).
C3_ShortCircuit ==
    \A p \in Procs :
        LET t == req[p].trace
        IN \A i \in DOMAIN t :
            /\ t[i] = "cache_hit" =>
                    /\ t = <<"cache_hit">>
                    /\ req[p].pc = "done" /\ req[p].outcome = "returned"
                    /\ req[p].result # None
            /\ t[i] = "store_hit" =>
                    \A j \in DOMAIN t :
                        j > i => t[j] \in {"cache_set", "cache_set_refused"}

\* a call has returned from a cache hit
C3_Witness ==
    \E p \in Procs :
        req[p].pc = "done" /\ req[p].trace = <<"cache_hit">> /\ req[p].result # None

\* C4, as claimed: when get_available_languages misses the cache and the store and
\* the provider tier yields languages, at the return both the cache and the durable
\* store hold the language list of the movie.
C4_LanguagesWrittenToStoreAndCache ==
    [][\A p \in Procs :
        (/\ Returns(p)
         /\ req'[p].op = "languages"
         /\ req'[p].trace = <<"cache_miss", "store_miss", "provider", "cache_set">>)
        => /\ r_languages'[req'[p].movie_id] = req'[p].result
           /\ \/ StoredLanguages'[req'[p].movie_id] = Val(req'[p].result)
              \/ \E d \in movies' :
                    /\ MovieMatches(d, req'[p].movie_id)
                    /\ d.available_languages = Val(req'[p].result)]_vars

\* C5: a get_subtitle_content whose cache lookup found the cache unavailable, and
\* whose storage calls did not fail, returns what the blob store holds for the key
\* (None when it holds nothing); a call raises only when the storage connection of
\* initialize failed.
C5_CacheDegradation ==
    \A p \in Procs :
        /\ (/\ req[p].pc = "done" /\ req[p].op = "content"
            /\ req[p].trace # <<>> /\ req[p].trace[1] = "cache_down"
            /\ ~req[p].store_failed)
           => /\ req[p].outcome = "returned"
              /\ req[p].result = BlobStore[Key(req[p])]
        /\ (req[p].pc = "done" /\ req[p].outcome = "raised") => req[p].store_failed

\* with no Redis client, a get_subtitle_content has returned the stored content
C5_Witness ==
    \E p \in Procs :
        /\ ~redis_client
        /\ req[p].pc = "done" /\ req[p].op = "content"
        /\ req[p].trace = <<"cache_down", "store_hit", "cache_set_refused">>
        /\ IsSome(req[p].result) /\ req[p].result = BlobStore[Key(req[p])]

\* C6, as claimed: a get_subtitle_info or get_subtitle_content whose storage read
\* failed ends in an error the caller can tell from a miss.
C6_StoreFailureSurfaced ==
    \A p \in Procs :
        (/\ req[p].pc = "done" /\ req[p].op \in {"info", "content"}
         /\ Has(req[p].trace, "store_fail"))
        => req[p].outcome = "raised"

(***************************************************************************)
(* Properties of initialize (specification SpecInit).                      *)
(***************************************************************************)
\* where a call is while it runs the body of its operation
InOperation(p) == req[p].pc \notin {"idle", "done", "lock_wait", "connect", "cache_connect"}
AllComponentsSet ==
    IsSome(storage) /\ IsSome(cache) /\ IsSome(api_manager) /\ IsSome(processor)

\* C7: the body of initialize completes at most once and, once it has, no caller
\* is inside it again; _initialized is true only when the four components are set;
\* a call runs the body of its operation only on an initialized facade.
C7_InitializeOnce ==
    /\ body_runs <= 1
    /\ _initialized => /\ AllComponentsSet
                       /\ \A p \in Procs : req[p].pc \notin {"connect", "cache_connect"}
    /\ \A p \in Procs : InOperation(p) => _initialized /\ AllComponentsSet

\* initialize has succeeded while a second caller is queued on the lock
C7_Witness ==
    /\ _initialized /\ body_runs = 1
    /\ \E p \in Procs : req[p].pc = "lock_wait"

\* C8: the step in which a call ends with the error of initialize leaves the facade
\* uninitialized with its four components None; that call entered the body of
\* initialize once and ran nothing of its operation.
C8_InitFailure ==
    [][\A p \in Procs :
        (Returns(p) /\ req'[p].outcome = "raised")
        => /\ ~_initialized'
           /\ storage' = None /\ cache' = None
           /\ api_manager' = None /\ processor' = None
           /\ req'[p].attempts = 1
           /\ req'[p].trace = <<>>]_vars

\* a call has ended with the error of initialize, after max_retries connection
\* attempts
C8_Witness ==
    \E p \in Procs :
        /\ req[p].pc = "done" /\ req[p].outcome = "raised"
        /\ req[p].i = max_retries - 1
        /\ _error_count >= 1 /\ ~_initialized /\ storage = None

(***************************************************************************)
(* Properties of RateLimiter (specifications SpecRL, SpecRLFair).          *)
(***************************************************************************)
\* the admissions in the window that ends with admission i
AdmittedInWindow(i) ==
    {j \in DOMAIN admitted :
        admitted[j] <= admitted[i] /\ admitted[i] - admitted[j] < time_window}

\* C9: no window of time_window holds more than max_calls admissions, and the list
\* of timestamps is read and written only by a step that takes the lock free.
C9_WindowBound ==
    /\ [](/\ Len(calls) <= max_calls
          /\ \A i \in DOMAIN admitted : Cardinality(AdmittedInWindow(i)) <= max_calls)
    /\ [][calls' # calls => lock.holder = None /\ lock.waiters = <<>>]_vars

\* more than max_calls calls have been admitted, over more than one window, and a
\* caller has been held back at capacity
C9_Witness ==
    /\ Len(admitted) > max_calls
    /\ \E c \in Procs : rl[c].pc = "sleeping"

\* C10, as claimed: every call of acquire() returns.
C10_EveryAcquireReturns ==
    \A c \in Procs : (rl[c].pc # "idle") ~> (rl[c].pc = "idle")

\* C11: on a fresh limiter, while fewer than max_calls calls have been made, all of
\* them inside one window, a call of acquire() returns in the step that made it,
\* without sleeping or queueing, and appends exactly its own timestamp to the list.
C11_NoDelayBelowCapacity ==
    [][(/\ Len(admitted) < max_calls
        /\ \A c \in Procs : rl[c].pc = "idle"
        /\ \A i \in DOMAIN admitted : clock - admitted[i] < time_window
        /\ <<calls, lock, rl, admitted>>' # <<calls, lock, rl, admitted>>)
       => /\ calls' = Append(calls, clock)
          /\ admitted' = Append(admitted, clock)
          /\ \A c \in Procs : rl'[c].pc = "idle"
          /\ lock' = lock]_vars

\* exactly max_calls calls have been admitted inside one window and nobody waits
C11_Witness ==
    /\ Len(admitted) = max_calls /\ Len(calls) = max_calls
    /\ \A i \in DOMAIN admitted : clock - admitted[i] < time_window
    /\ \A c \in Procs : rl[c].pc = "idle"
    /\ lock.holder = None

(***************************************************************************)
(* Properties of SubtitleStorage (specification SpecStore).                *)
(***************************************************************************)
\* the step that makes and completes the storage call o
StoreStep(p, o) == started' # started /\ req'[p].op = o

\* C12, as claimed: a store_subtitle_metadata that repeats the caller's previous
\* call (same movie, language and data) on a record that is still there leaves one
\* record for the pair, with the created_at it had.
C12_UpsertIdempotent ==
    [][\A p \in Procs :
        (/\ StoreStep(p, "upsert")
         /\ req[p].pc = "done" /\ req[p].op = "upsert"
         /\ Key(req[p]) = Key(req'[p])
         /\ req[p].subtitle_info = req'[p].subtitle_info
         /\ IsSome(subtitles[Key(req[p])]))
        => /\ IsSome(subtitles'[Key(req[p])])
           /\ Val(subtitles'[Key(req[p])]).created_at
                = Val(subtitles[Key(req[p])]).created_at]_vars

\* C13: a document that get_subtitle_metadata or get_subtitle_by_quality returns,
\* and every document get_subtitles_by_movie returns without include_expired, has
\* its expires_at after the instant of the read, whatever upserts, blob writes,
\* sweeps and time advances came before.
C13_ExpiredNeverReturned ==
    [][\A p \in Procs :
        /\ (StoreStep(p, "get_record") \/ StoreStep(p, "get_best"))
            => (IsSome(req'[p].result) => Val(req'[p].result).expires_at[2] > now)
        /\ (StoreStep(p, "get_for_movie") /\ ~req'[p].include_expired)
            => \A d \in req'[p].result : d.expires_at[2] > now]_vars

\* a read has returned nothing for a pair whose expired record is still in the
\* collection
C13_Witness ==
    \E p \in Procs :
        /\ req[p].pc = "done" /\ req[p].op \in {"get_record", "get_best"}
        /\ req[p].result = None
        /\ IsSome(subtitles[Key(req[p])])
        /\ Val(subtitles[Key(req[p])]).expires_at[2] < now
        /\ Val(subtitles[Key(req[p])]).quality_score >= req[p].min_quality_score

C15_SweepDeletesExactlyOrphans ==
    [][\A p \in Procs :
        (req[p].pc = "sweep_orphans" /\ req'[p].pc = "done")
        => /\ \A f \in gridfs' :
                \E k \in Keys :
                    /\ IsSome(subtitles'[k])
                    /\ Val(subtitles'[k]).gridfs_file_id = Some(Str(f._id))
           /\ \A k \in Keys :
                (IsSome(subtitles[k]) /\ Live(Val(subtitles[k])))
                    => BlobStore'[k] = BlobStore[k]]_vars

\* the live records a movies_subtitles document stands for: those whose movie_id
\* is its imdb_id or its title
LiveKeysFor(d) == {k \in Keys : Some(k[1]) \in {d.imdb_id, d.title} /\ k \in LiveKeysOf(k[1])}

\* C16, as claimed: when store_subtitle_metadata or cleanup_expired_subtitles
\* completes, the subtitle_count and available_languages of every movies_subtitles
\* document are the number and the languages of the live records of its movie.
C16_MovieInfoMatchesLiveRecords ==
    [][\A p \in Procs :
        (StoreStep(p, "upsert") \/ (req[p].pc = "sweep_orphans" /\ req'[p].pc = "done"))
        => \A d \in movies' :
            /\ d.subtitle_count = Cardinality(LiveKeysFor(d)')
            /\ d.available_languages = {k[2] : k \in LiveKeysFor(d)'}]_vars

(***************************************************************************)
(* Cache against store (specification Spec).                               *)
(***************************************************************************)
\* C17, as claimed: whenever the cache holds a metadata or a content entry for a
\* pair, the store holds a record of the pair that has not expired.
C17_CacheNeverOutlivesStore ==
    \A k \in Keys :
        (IsSome(r_content[k]) \/ IsSome(r_metadata[k]))
            => (IsSome(subtitles[k]) /\ Live(Val(subtitles[k])))

(***************************************************************************)
(* Requests for different pairs on the shared RateLimiter (SpecRLFair):    *)
(* each caller is the provider search of a request for its own pair.       *)
(***************************************************************************)
\* C18, as claimed: a request that waits for the rate limiter's lock while the
\* request of another pair holds it gets through acquire() in the end.
C18_OtherPairRunsToCompletion ==
    \A c \in Procs :
        (rl[c].pc = "waiting" /\ lock.holder # Some(c)) ~> (rl[c].pc = "idle")

\* the (filename, language) pair of a result, an absent field being ''
FilenameAndLanguage(r) == <<Get(r, "filename", <<>>), Get(r, "language", <<>>)>>

\* C19: when search_subtitles returns, every (filename, language) pair among
\* the concatenated results appears exactly once in the returned list, as the
\* first result of that pair in concatenation order: duplicates across
\* providers collapse to the first and results of distinct pairs are all kept.
C19_DedupByFilenameAndLanguage ==
    search_pc = "done" =>
        \A i \in DOMAIN all_results :
            LET pair == FilenameAndLanguage(all_results[i])
                first == CHOOSE j \in DOMAIN all_results :
                             /\ FilenameAndLanguage(all_results[j]) = pair
                             /\ \A h \in 1..(j - 1) :
                                    FilenameAndLanguage(all_results[h]) # pair
                kept == {n \in DOMAIN search_return :
                             FilenameAndLanguage(search_return[n]) = pair}
            IN  /\ Cardinality(kept) = 1
                /\ \A n \in kept : search_return[n] = all_results[first]

\* the release label contains one of the three terms, letter case aside
ReleaseMatches(release) ==
    \E term \in BonusTerms :
        \E off \in 0..(Len(release) - Len(term)) :
            \A j \in DOMAIN term : LowerChar(release[off + j]) = term[j]
ScoredAsSpecified(r) ==
    /\ r.provider = "opensubtitles" =>
           /\ r.quality_score = r.download_count * 10
                                + (IF ReleaseMatches(r.release) THEN 100 ELSE 0)
           /\ (r.download_count = 500 /\ r.release = Text_BluRay)
                  => r.quality_score = 5100
           /\ (r.download_count = 0 /\ r.release = <<>>) => r.quality_score = 0
           /\ (r.download_count = 1200 /\ r.release = Text_BluRay)
                  => r.quality_score = 12100
           /\ (r.download_count = 5 /\ r.release = Text_CAM) => r.quality_score = 50
    /\ r.provider = "subdb" => r.quality_score = 50

\* C20: every OpenSubtitles result gathered or returned by search_subtitles
\* scores download_count*10, plus 100 when its release label contains bluray,
\* web-dl or webrip in any letter case ((500, BluRay) 5100, (0, none) 0,
\* (1200, BluRay) 12100, (5, CAM) 50), and every SubDB result scores 50.
C20_QualityScore ==
    /\ \A i \in DOMAIN all_results : ScoredAsSpecified(all_results[i])
    /\ \A i \in DOMAIN search_return : ScoredAsSpecified(search_return[i])
C20_Witness ==
    /\ search_pc = "done"
    /\ \E i \in DOMAIN search_return :
           /\ search_return[i].provider = "opensubtitles"
           /\ search_return[i].download_count = 500
           /\ search_return[i].release = Text_BluRay
           /\ search_return[i].quality_score = 5100
    /\ \E i \in DOMAIN all_results :
           /\ all_results[i].provider = "opensubtitles"
           /\ all_results[i].release = Text_x_WEBRip
           /\ all_results[i].quality_score = 150
    /\ \E i \in DOMAIN search_return : search_return[i].provider = "subdb"

\* C21: the list search_subtitles returns is in order of non-increasing
\* quality score whatever the providers answered, and a result of 1200
\* downloads and release BluRay precedes one of 5 downloads and release CAM.
C21_SortedByScoreDescending ==
    search_pc = "done" =>
        \A i, j \in DOMAIN search_return :
            /\ i < j => search_return[i].quality_score >= search_return[j].quality_score
            /\ ( /\ Get(search_return[i], "release", <<>>) = Text_BluRay
                 /\ search_return[i].download_count = 1200
                 /\ Get(search_return[j], "release", <<>>) = Text_CAM
                 /\ search_return[j].download_count = 5 ) => i < j
C21_Witness ==
    /\ search_pc = "done"
    /\ os_items = <<Attributes(5, Text_CAM, Text_a_x, Text_en),
                    Attributes(1200, Text_BluRay, Text_a, Text_en)>>
    /\ Len(search_return) = 2
    /\ search_return[1].quality_score = 12100
    /\ search_return[2].quality_score = 50

\* payloads that are oversized or malformed, and those too with no bytes
RejectedPayloads == {"bad", "noevents", "huge"}
Occurrences(trace, e) == Cardinality({i \in DOMAIN trace : trace[i] = e})
\* the operation ends here returning None, having downloaded once, and the
\* cached content, GridFS, the records and the statistics stay as they were
EndsUncached(p) ==
    /\ req'[p].pc = "done" /\ req'[p].outcome = "returned" /\ req'[p].result = None
    /\ Occurrences(req'[p].trace, "exception") = 0
    /\ Occurrences(req'[p].trace, "provider") = 1
    /\ UNCHANGED <<r_content, gridfs, subtitles, usage_stats>>

\* C22: process_subtitle_file answers (None, reason) for an empty, oversized
\* or malformed payload; the step of download_and_process_subtitle that gets
\* such a payload returns None without another download and leaves the
\* cached content, GridFS, the records and the download statistics unchanged.
C22_ValidationFailureNotRetriedNotCached ==
    [][\A p \in Procs :
        /\ \A c \in RejectedPayloads \cup {""} :
               process_subtitle_file(c)[1] = None /\ process_subtitle_file(c)[2] # "Success"
        /\ ( /\ req[p].op = "download" /\ req[p].pc = "process"
             /\ Val(req[p].val) \in RejectedPayloads
             /\ req'[p] # req[p] ) => EndsUncached(p)
        /\ ( /\ req[p].op = "download" /\ req[p].pc = "provider"
             /\ req'[p] # req[p] /\ req'[p].pc # "process" ) => EndsUncached(p)
    ]_vars
C22_Witness ==
    /\ req["p1"].op = "download" /\ req["p1"].pc = "done"
    /\ req["p1"].trace # <<>>
    /\ req["p1"].trace[Len(req["p1"].trace)] = "process"
    /\ req["p1"].result = None

\* the calls and the sleeps of the log, in order
CallsOf(log) == SelectSeq(log, LAMBDA e : e.kind = "call")
SleepsOf(log) == SelectSeq(log, LAMBDA e : e.kind = "sleep")

\* C23: _retry_operation with N = retry_attempts >= 1 and base delay d calls
\* the operation at most N times and not again after a success, whose value
\* it returns; it waits d*2^(k-1) right after the k-th failure for k < N and
\* never after the N-th; after N failures it raises the last exception.
C23_RetryWithBackoff ==
    LET N == retry_attempts
        d == retry_delay
        cs == CallsOf(retry_log)
        ws == SleepsOf(retry_log)
    IN  /\ Len(cs) <= N
        /\ \A k \in DOMAIN cs : ~cs[k].raised =>
               /\ k = Len(cs) /\ retry_log[Len(retry_log)] = cs[k]
               /\ retry_pc = "returned" /\ retry_result = Some(cs[k].value)
        /\ Len(ws) <= N - 1
        /\ \A k \in DOMAIN ws : ws[k].wait = d * (2 ^ (k - 1))
        /\ \A i \in DOMAIN retry_log :
               /\ retry_log[i].kind = "sleep" =>
                      i > 1 /\ retry_log[i - 1].kind = "call" /\ retry_log[i - 1].raised
               /\ (retry_log[i].kind = "call" /\ retry_log[i].raised /\ i < Len(retry_log))
                      => retry_log[i + 1].kind = "sleep"
        /\ (Len(cs) = N /\ cs[N].raised) =>
               /\ retry_log[Len(retry_log)] = cs[N]
               /\ retry_pc = "raised" /\ retry_result = Some(cs[N].value)
        /\ retry_pc = "raised" => Len(cs) = N
        /\ retry_pc = "returned" => ~cs[Len(cs)].raised
C23_Witness ==
    /\ retry_attempts = 3 /\ retry_delay = 2 /\ retry_pc = "raised"
    /\ retry_log = <<[kind |-> "call", raised |-> TRUE, value |-> "e1"],
                     [kind |-> "sleep", wait |-> 2],
                     [kind |-> "call", raised |-> TRUE, value |-> "e1"],
                     [kind |-> "sleep", wait |-> 4],
                     [kind |-> "call", raised |-> TRUE, value |-> "e2"]>>
    /\ retry_result = Some("e2")

\* the responses the log holds, in order
ResponsesOf(log) == SelectSeq(log, LAMBDA e : e.kind = "response")
Transient == {"429", "500", "timeout"}

\* C24: when a call of OpenSubtitlesAPI under _retry_operation has ended, the
\* provider has slept on no response itself, and a call that met a timeout, a
\* 5xx or a 429 was followed by another call unless it was the last the
\* attempt cap allows; what the manager gets is a value, not an exception.
C24_TransientFailureRetriedByManager ==
    (retry_op # "operation" /\ retry_pc \in {"returned", "raised"}) =>
        LET rs == ResponsesOf(retry_log)
        IN  /\ \A i \in DOMAIN retry_log : retry_log[i].kind # "provider_sleep"
            /\ \A k \in DOMAIN rs :
                   rs[k].status \in Transient => (k < Len(rs) \/ k = retry_attempts)
            /\ retry_pc = "returned"

\* the queries of the log made to a provider
QueriesTo(provider) == {i \in DOMAIN search_log : search_log[i].provider = provider}
FromOpenSubtitles == SelectSeq(all_results, LAMBDA r : r.provider = "opensubtitles")

\* C25: search_subtitles asks OpenSubtitles first whenever it is configured,
\* once, by imdb_id when one is given and by title otherwise; it asks SubDB,
\* once and afterwards, exactly when a file hash was given and OpenSubtitles
\* contributed fewer than 3 results (none when it failed or is not configured).
C25_ProviderOrder ==
    /\ QueriesTo("subdb") # {} => (file_hash /\ Len(FromOpenSubtitles) < 3)
    /\ search_pc \in {"deduplicate", "done"} =>
        /\ Cardinality(QueriesTo("opensubtitles")) = IF opensubtitles THEN 1 ELSE 0
        /\ opensubtitles =>
               search_log[1] = [provider |-> "opensubtitles",
                                by |-> IF search_imdb_id # None THEN "imdb_id"
                                       ELSE "query"]
        /\ Cardinality(QueriesTo("subdb")) =
               IF file_hash /\ Len(FromOpenSubtitles) < 3 THEN 1 ELSE 0
        /\ \A i \in QueriesTo("subdb") : \A j \in QueriesTo("opensubtitles") : j < i
C25_Witness ==
    /\ search_pc = "done" /\ file_hash /\ Len(os_items) = 3
    /\ Len(search_log) = 1 /\ search_log[1].by = "imdb_id"

Searching == {l \in check_languages : probe_pc[l] = "searching"}

\* C26: during get_available_languages at most concurrent_requests tasks
\* are inside their search at any moment, no language is searched twice, and
\* when the call returns every language has been searched once.
C26_ProbeConcurrencyBounded ==
    /\ Cardinality(Searching) <= concurrent_requests
    /\ \A l \in check_languages : searches[l] <= 1
    /\ languages_return # None => \A l \in check_languages : searches[l] = 1
C26_Witness ==
    /\ Cardinality(Searching) = concurrent_requests
    /\ \E l \in check_languages : probe_pc[l] = "waiting"
    /\ \E l \in check_languages : probe_pc[l] = "done"

\* C27: a check_language task whose search raises changes no other task;
\* once every task has ended get_available_languages returns, and what it
\* returns is exactly the set of languages whose own search gave results.
C27_ProbeFailuresIsolated ==
    /\ [](( \A l \in check_languages : probe_pc[l] = "done" ) =>
             (languages_return # None \/ ENABLED GatherReturn))
    /\ [](languages_return # None =>
             Val(languages_return) = {l \in check_languages : probe_outcome[l] = "results"})
    /\ [][\A l \in check_languages :
            (probe_outcome[l] # "raised" /\ probe_outcome'[l] = "raised") =>
                \A other \in check_languages \ {l} :
                    /\ probe_pc'[other] = probe_pc[other]
                    /\ probe_outcome'[other] = probe_outcome[other]
                    /\ searches'[other] = searches[other]]_vars
C27_Witness ==
    /\ languages_return # None
    /\ \E l \in check_languages : probe_outcome[l] = "raised"
    /\ \E l \in check_languages : probe_outcome[l] = "results"

\* C28: a call of OpenSubtitlesAPI with credentials starts a login exactly
\* when the token is absent or now is at or past its expiry; a login that
\* succeeds is followed at once by the request, carrying the token just
\* obtained; a login that fails ends the call with [] or None and no request;
\* a call that needs no login sends the token held.
C28_TransparentRelogin ==
    [][\A c \in Procs :
        /\ (os[c].pc \in {"idle", "done"} /\ os'[c] # os[c] /\ credentials) =>
               /\ os'[c].pc = "login" <=>
                      (token = None \/ (token_expires # None
                                        /\ api_now >= Val(token_expires)))
               /\ os'[c].pc # "login" =>
                      (os'[c].pc = "request" /\ os'[c].bearer = token
                       /\ os'[c].logins = 0)
        /\ (os[c].pc = "login" /\ os'[c].pc = "request") =>
               /\ token' # token /\ os'[c].bearer = token'
               /\ token_expires' = Some(api_now + token_validity)
        /\ (os[c].pc = "login" /\ os'[c].pc = "done") =>
               /\ os'[c].requests = 0 /\ os'[c].result = Nothing(os[c].op)
               /\ UNCHANGED <<token, token_expires>>
        /\ os'[c].requests > 0 => os'[c].bearer # None
    ]_vars
C28_Witness ==
    \E c \in Procs :
        /\ os[c].pc = "request" /\ os[c].logins = 1
        /\ os[c].bearer = token /\ issued = 2

\* C29: at most one login of an OpenSubtitlesAPI is in flight at any time.
C29_OneLoginInFlight ==
    Cardinality({c \in Procs : os[c].pc = "login"}) <= 1

\* c returns from increment_rate_limit in this step
IncrementReturns(c) == inc[c].pc # "done" /\ inc'[c].pc = "done" /\ inc'[c] # inc[c]
Allowed(c) == Val(inc'[c].result)[1]
Count(c) == Val(inc'[c].result)[2]
\* the call returns through the fail-open path: (True, 0)
FailedOpen(c) == Val(inc'[c].result) = <<TRUE, 0>>

\* C30 as stated: the counter never exceeds max_requests; every call that
\* returns allowed raised the counter by exactly one and returns the new
\* count; a call is refused, the counter unchanged, exactly when the counter
\* was at or above max_requests.
C30_IncrementAtomic ==
    /\ [](CountOf(rate_count) <= max_requests)
    /\ [][\A c \in Procs : IncrementReturns(c) =>
            /\ Allowed(c) => /\ CountOf(rate_count') = CountOf(rate_count) + 1
                             /\ Count(c) = CountOf(rate_count')
            /\ ~Allowed(c) => UNCHANGED rate_count
            /\ ~Allowed(c) <=> CountOf(rate_count) >= max_requests]_vars

\* C30 amended: the same for every call that Redis serves; a call without a
\* client or meeting an error of Redis returns (True, 0) and leaves the
\* counter unchanged.
C30_IncrementAtomicWhenServed ==
    /\ [](CountOf(rate_count) <= max_requests)
    /\ [][\A c \in Procs : IncrementReturns(c) =>
            /\ (Allowed(c) /\ ~FailedOpen(c)) =>
                   /\ CountOf(rate_count') = CountOf(rate_count) + 1
                   /\ Count(c) = CountOf(rate_count')
            /\ (~Allowed(c) \/ FailedOpen(c)) => UNCHANGED rate_count
            /\ FailedOpen(c) <=> (~redis_client \/ ~redis_up)
            /\ ~FailedOpen(c) =>
                   (~Allowed(c) <=> CountOf(rate_count) >= max_requests)]_vars
C30_Witness ==
    /\ rate_count = Some(max_requests)
    /\ \E c \in Procs : inc[c].pc = "done" /\ inc[c].result = Some(<<FALSE, max_requests>>)
    /\ \E c \in Procs : inc[c].pc = "done" /\ inc[c].result = Some(<<TRUE, max_requests>>)

\* C31: a call of increment_rate_limit that has no client, or whose GET or
\* pipeline Redis does not answer, returns allowed, whatever the counter
\* holds, and leaves the counter as it is.
C31_FailsOpen ==
    [][\A c \in Procs :
        (IncrementReturns(c) /\ (~redis_client \/ ~redis_up)) =>
            /\ inc'[c].result # None
            /\ Val(inc'[c].result)[1] = TRUE
            /\ UNCHANGED rate_count]_vars
C31_Witness ==
    /\ rate_count = Some(max_requests)
    /\ ~redis_up
    /\ \E c \in Procs : inc[c].pc = "done" /\ inc[c].result = Some(<<TRUE, 0>>)

\* C32: a rate-limit key that exists in Redis has an expiry.
C32_CounterKeyHasExpiry ==
    rate_count # None => rate_expires

\* C33: set_subtitle_content returns False for a content above max_cache_size
\* and changes no cache entry; a content within the limit is stored under
\* (movie_id, language), nothing else is changed, and True is returned when
\* the client is connected and Redis answers.  It always returns.
C33_OversizedContentRejected ==
    [][(cm_call.pc = "idle" /\ cm_call'.op = "set_subtitle_content") =>
        LET k == <<cm_call'.movie_id, cm_call'.language>>
            content == cm_call'.content
        IN  /\ cm_call'.pc = "done"
            /\ cm_call'.result \in {Some(TRUE), Some(FALSE)}
            /\ UNCHANGED <<r_metadata, r_languages, r_search, rate_count, rate_expires>>
            /\ ContentSize(content) > max_cache_size =>
                   cm_call'.result = Some(FALSE) /\ UNCHANGED r_content
            /\ (ContentSize(content) <= max_cache_size /\ redis_client /\ redis_up) =>
                   /\ cm_call'.result = Some(TRUE)
                   /\ r_content' = [r_content EXCEPT ![k] = Some(content)]]_vars
C33_Witness ==
    /\ cm_call.op = "set_subtitle_content" /\ cm_call.pc = "done"
    /\ cm_call.content = "big" /\ cm_call.result = Some(FALSE)
    /\ redis_client /\ redis_up
    /\ r_content[<<cm_call.movie_id, cm_call.language>>] = Some("old")

\* C34: no step of invalidate_movie_cache(movie_id) changes an entry of
\* another movie id, a search entry or the rate-limit counter, and a call
\* that Redis answered throughout has removed every metadata, content and
\* languages entry of movie_id when it returns.
C34_InvalidateOnlyThatMovie ==
    [][cm_call.op = "invalidate_movie_cache" =>
        /\ \A k \in CacheKeys :
               k[1] # cm_call.movie_id =>
                   r_metadata'[k] = r_metadata[k] /\ r_content'[k] = r_content[k]
        /\ \A m \in CacheMovieIds :
               m # cm_call.movie_id => r_languages'[m] = r_languages[m]
        /\ UNCHANGED <<r_search, rate_count, rate_expires>>
        /\ (cm_call.pc # "done" /\ cm_call'.pc = "done" /\ redis_up) =>
               /\ \A l \in CacheLangs :
                      /\ r_metadata'[<<cm_call.movie_id, l>>] = None
                      /\ r_content'[<<cm_call.movie_id, l>>] = None
               /\ r_languages'[cm_call.movie_id] = None]_vars

\* no storage call is in progress
StoreQuiescent == \A p \in Procs : req[p].pc \in {"idle", "done"}

\* C35: once the cache_subtitle_content calls made for a pair have all
\* returned, however they interleaved, GridFS holds at most one file of the
\* pair, its content is that of one of the calls, and the record of the pair,
\* if there is one, says cached_content with the id of that file.
C35_OneBlobPerPair ==
    (StoreQuiescent /\ started > 0) =>
        /\ Cardinality(FilesOf(BlobKey)) <= 1
        /\ \A f \in FilesOf(BlobKey) :
               /\ Decode(f) \in BlobContents
               /\ IsSome(subtitles[BlobKey]) =>
                      /\ Val(subtitles[BlobKey]).cached_content
                      /\ Val(subtitles[BlobKey]).gridfs_file_id = Some(Str(f._id))

\* C36: with no storage call in progress, a record says cached_content and
\* carries a file id exactly when GridFS holds a file of the record's pair.
C36_CachedFlagIffBlob ==
    StoreQuiescent =>
        \A k \in Keys :
            IsSome(subtitles[k]) =>
                ( ( /\ Val(subtitles[k]).cached_content
                    /\ Val(subtitles[k]).gridfs_file_id # None )
                  <=> FilesOf(k) # {} )

\* C37: when search_and_cache_subtitles returns n >= 1 results it got from
\* the providers, the store holds the record of (imdb_id or title, language)
\* and that record carries the id and the quality score of the last result
\* of the returned list.
C37_LastResultIsStored ==
    [][\A p \in Procs :
        ( /\ Returns(p) /\ req[p].op = "search"
          /\ Occurrences(req'[p].trace, "provider") = 1
          /\ req'[p].result # <<>> ) =>
            LET results == req'[p].result
                last == results[Len(results)]
                k == <<SearchMovie(req[p]), req[p].language>>
            IN  /\ IsSome(subtitles'[k])
                /\ Val(subtitles'[k]).subtitle_id = last.id
                /\ Val(subtitles'[k]).quality_score = last.quality_score]_vars

\* C39: when the providers answer an empty list, search_and_cache_subtitles
\* returns the empty list having written nothing to the search cache, the
\* records, GridFS or the movie documents; no empty list is ever in the
\* search cache, and a search that misses the cache goes to the providers.
C39_NegativeResultNotCached ==
    /\ [](\A q \in DOMAIN r_search : r_search[q] # Some(<<>>))
    /\ [][\A p \in Procs :
            /\ ( /\ Returns(p) /\ req[p].op = "search" /\ req'[p].result = <<>>
                 /\ Occurrences(req'[p].trace, "provider") = 1 ) =>
                   /\ req[p].pc = "provider"
                   /\ Occurrences(req'[p].trace, "cache_set") = 0
                   /\ Occurrences(req'[p].trace, "store_set") = 0
                   /\ UNCHANGED <<r_search, subtitles, gridfs, movies>>
            /\ ( /\ req[p].op = "search" /\ req[p].pc = "cache_get"
                 /\ req'[p] # req[p]
                 /\ (~CacheReachable \/ r_search[CacheKey(req[p])] = None) ) =>
                   req'[p].pc = "provider"]_vars
C39_Witness ==
    /\ req["p1"].op = "search" /\ req["p1"].pc = "done" /\ req["p1"].result = <<>>
    /\ req["p1"].trace = <<"cache_miss", "provider">>
    /\ started = 2
    /\ CacheReachable /\ mongo_up

\* the download_and_process_subtitle calls have all returned, each with a content
DownloadsReturned ==
    \A p \in Procs :
        /\ req[p].op = "download" /\ req[p].pc = "done"
        /\ req[p].outcome = "returned" /\ req[p].result # None

\* C38: once concurrent download_and_process_subtitle calls for one pair
\* have all returned a content, the content in the cache and the content in
\* GridFS for the pair are the same.
C38_CacheEqualsBlobStore ==
    DownloadsReturned =>
        \A p \in Procs :
            (IsSome(r_content[Key(req[p])]) /\ IsSome(StoredContent(Key(req[p]))))
                => r_content[Key(req[p])] = StoredContent(Key(req[p]))

====
